---- MODULE Spec2Model ----
(***************************************************************************)
(* A model of the Prism storage engine (puji4810/Prism): the write path    *)
(* (write batch, write-ahead log, memtable, flush to a sorted table), the  *)
(* read path (Get, merging iterator, DB iterator), recovery, and the       *)
(* thread-pool scheduler.                                                  *)
(***************************************************************************)
EXTENDS Integers, Sequences, FiniteSets, TLC

VARIABLES
    opts,   \* Options of the engine: write_buffer_size, reuse_logs, paranoid_checks
    db,     \* the DBImpl object (its members), or its absence
    env,    \* the database directory: log files, table files, LOCK
    res,    \* what the last API call returned to its caller
    gh,     \* history of the calls made so far (the reference the engine is compared to)
    it,     \* the DB iterator object handed out by NewIterator
    thr,    \* writer threads running DBImpl::Write concurrently
    sch,    \* the ThreadPoolScheduler
    cache,  \* one LRUCache, a shard of the block cache
    locks,  \* the LOCK file: each process's PosixLockTable, the fcntl lock, the handles
    skl     \* one SkipList and the threads working on it

vars == <<opts, db, env, res, gh, it, thr, sch, cache, locks, skl>>

-----------------------------------------------------------------------------
(* Bounds of the model *)

MaxKey == 2          \* user keys are the one-byte keys 1..MaxKey
MaxWrites == 2       \* number of write calls in one behaviour
SmallLen == 1        \* length of a short value
LargeLen == 40000    \* length of a long value (longer than one log block)
KeyLen == 1          \* length of a user key in bytes
MaxCrashes == 2      \* number of crashes in one behaviour
MaxOpens == 2        \* number of times the directory is opened again
TornHeaderBytes == 3 \* bytes of a record header a crash leaves (fewer than kHeaderSize)
NumWorkers == 2      \* worker threads of the scheduler (the code starts at least kMinThreads)
MaxJobs == 3         \* jobs passed to Submit
NumThreads == 2      \* threads calling Write at the same time
MaxTime == 2         \* readings of the steady clock after the first
MaxExitJobs == 2     \* jobs submitted to a scheduler that is then destroyed
MaxEntries == 3      \* entries inserted into the cache
MaxCacheKey == 3     \* keys of the cache are 1..MaxCacheKey
MaxCharge == 2       \* charges of the entries are 1..MaxCharge
MaxCapacity == 2     \* capacities of the cache are 0..MaxCapacity
MaxHeld == 2         \* handles the client holds on one entry
NumProcs == 3        \* processes that open the same directory
MaxRecords == 4      \* payloads written to one log file
NumChildren == 3     \* children of a merging iterator
MaxSkipKey == 3      \* keys inserted into the skip list are 1..MaxSkipKey
MaxVersions == 3     \* entries in the children of the iterator that is moved backwards
MaxHeight == 2       \* greatest height RandomHeight returns (kMaxHeight in the code is 12)
MaxDamaged == 2      \* physical log records damaged on disk in one behaviour

(* Program constants *)

kTypeDeletion == 0
kTypeValue == 1
kValueTypeForSeek == kTypeValue
kHeader == 12
kBlockSize == 32768
kHeaderSize == 7
kFullType == 1
kFirstType == 2
kMiddleType == 3
kLastType == 4
kArenaBlockSize == 4096
kPointerSize == 8
kFooterEncodedLength == 48
\* numeric_limits<size_t>::max(): the greatest priority there is, here the
\* greatest integer of the model
kLazyFallbackPriority == 2147483647

NULL == [null |-> TRUE]
Keys == 1..MaxKey
ValueLens == {SmallLen, LargeLen}
WriteBufferSizes == {256, 8192}

-----------------------------------------------------------------------------
(* Generic helpers *)

FnPut(f, k, v) == [x \in (DOMAIN f) \cup {k} |-> IF x = k THEN v ELSE f[x]]

FnDel(f, k) == [x \in (DOMAIN f) \ {k} |-> f[x]]

EmptyFn == [x \in {} |-> NULL]

RECURSIVE SetMax(_)
SetMax(S) == IF S = {} THEN 0 ELSE LET x == CHOOSE y \in S : \A z \in S : z <= y IN x

-----------------------------------------------------------------------------
(* util/coding.cpp *)

RECURSIVE VarintLength(_)
VarintLength(v) == IF v >= 128 THEN 1 + VarintLength(v \div 128) ELSE 1

-----------------------------------------------------------------------------
(* include/dbformat.h, include/dbformat.cpp: internal keys.  An entry is   *)
(* user key, sequence, type and value; val names the value's bytes and len *)
(* is their number.                                                        *)

PackSequenceAndType(seq, t) == seq * 256 + t

Tag(e) == PackSequenceAndType(e.seq, e.type)

\* InternalKeyComparator::Compare(a, b) < 0
InternalKeyLess(a, b) ==
    \/ a.key < b.key
    \/ a.key = b.key /\ Tag(a) > Tag(b)

\* InternalKeyComparator::Compare(a, b) <= 0
InternalKeyLeq(a, b) ==
    \/ a.key < b.key
    \/ a.key = b.key /\ Tag(a) >= Tag(b)

\* The entries of S in internal-key order
RECURSIVE SortedEntries(_)
SortedEntries(S) ==
    IF S = {} THEN <<>>
    ELSE LET m == CHOOSE x \in S : \A y \in S : InternalKeyLeq(x, y)
         IN <<m>> \o SortedEntries(S \ {m})

\* The first entry of S at or after the internal key (key, seq, type), or NULL
SeekEntry(S, key, seq, type) ==
    LET target == [key |-> key, seq |-> seq, type |-> type]
        c == {e \in S : InternalKeyLeq(target, e)}
    IN IF c = {} THEN NULL
       ELSE CHOOSE x \in c : \A y \in c : InternalKeyLeq(x, y)

-----------------------------------------------------------------------------
(* util/arena.cpp *)

NewArena == [alloc_bytes_remaining_ |-> 0, memory_usage_ |-> 0]

AllocateNewBlock(a, block_bytes) ==
    [a EXCEPT !.memory_usage_ = @ + block_bytes + kPointerSize]

AllocateFallback(a, bytes) ==
    IF bytes > kArenaBlockSize \div 4
    THEN AllocateNewBlock(a, bytes)
    ELSE [AllocateNewBlock(a, kArenaBlockSize)
             EXCEPT !.alloc_bytes_remaining_ = kArenaBlockSize - bytes]

Allocate(a, bytes) ==
    IF bytes <= a.alloc_bytes_remaining_
    THEN [a EXCEPT !.alloc_bytes_remaining_ = @ - bytes]
    ELSE AllocateFallback(a, bytes)

-----------------------------------------------------------------------------
(* src/memtable.cpp *)

NewMemTable(id) == [id |-> id, ents |-> {}, arena_ |-> NewArena, refs_ |-> 1]

EncodedLen(e) ==
    LET internal_key_size == KeyLen + 8
    IN VarintLength(internal_key_size) + internal_key_size
         + VarintLength(e.len) + e.len

MemTableAdd(m, e) ==
    [m EXCEPT !.arena_ = Allocate(@, EncodedLen(e)),
              !.ents = @ \cup {e}]

ApproximateMemoryUsage(m) == m.arena_.memory_usage_

\* MemTable::Get: [hit, status, value]
MemTableGet(m, key, snapshot) ==
    LET e == SeekEntry(m.ents, key, snapshot, kValueTypeForSeek)
    IN IF e # NULL /\ e.key = key
       THEN IF e.type = kTypeValue
            THEN [hit |-> TRUE, status |-> "ok", value |-> e.val]
            ELSE [hit |-> TRUE, status |-> "not_found", value |-> 0]
       ELSE [hit |-> FALSE, status |-> "ok", value |-> 0]

-----------------------------------------------------------------------------
(* src/write_batch.cpp.  A batch is its header (sequence, count) and its   *)
(* operations; an operation is [type, key, val, len].                      *)

OpSize(op) ==
    1 + VarintLength(KeyLen) + KeyLen
      + (IF op.type = kTypeValue THEN VarintLength(op.len) + op.len ELSE 0)

RECURSIVE OpsSize(_)
OpsSize(ops) == IF ops = <<>> THEN 0 ELSE OpSize(Head(ops)) + OpsSize(Tail(ops))

\* rep_.size()
BatchSize(b) == kHeader + OpsSize(b.ops)

\* The entries the handler of WriteBatch::Iterate inserts: operation i gets
\* sequence b.seq + i - 1.
BatchEntries(b) ==
    {[key |-> b.ops[i].key, seq |-> b.seq + i - 1, type |-> b.ops[i].type,
      val |-> b.ops[i].val, len |-> b.ops[i].len] : i \in 1..Len(b.ops)}

\* The number of leading operations of ops that lie wholly in the first
\* bytes bytes of the operations' encoding
RECURSIVE OpsWithin(_, _)
OpsWithin(ops, bytes) ==
    IF ops = <<>> \/ OpSize(Head(ops)) > bytes THEN 0
    ELSE 1 + OpsWithin(Tail(ops), bytes - OpSize(Head(ops)))

\* The handler calls of WriteBatch::Iterate with DBImpl::RecoveryHandler on
\* memtable m, for operations i..last of b
\* An Iterate that hands only the first operation to the handler
IterateIntoFirstOnly(m, b, i, last) ==
    IF last < 1 THEN m
    ELSE MemTableAdd(m, [key |-> b.ops[1].key, seq |-> b.seq,
                         type |-> b.ops[1].type, val |-> b.ops[1].val,
                         len |-> b.ops[1].len])

RECURSIVE IterateInto(_, _, _, _)
IterateInto(m, b, i, last) ==
    IF i > last THEN m
    ELSE IterateInto(
           MemTableAdd(m, [key |-> b.ops[i].key, seq |-> b.seq + i - 1,
                           type |-> b.ops[i].type, val |-> b.ops[i].val,
                           len |-> b.ops[i].len]),
           b, i + 1, last)

\* WriteBatch::Iterate over the contents "the first n bytes of b's rep_"
\* (n >= kHeader): every operation that parses is handed to the handler, in
\* order; a cut-off operation or a count that does not match is Corruption.
Iterate(m, b, n) ==
    LET found == OpsWithin(b.ops, n - kHeader)
    IN [m |-> IterateInto(m, b, 1, found),
        status |-> IF n = BatchSize(b) /\ found = b.count
                   THEN "ok" ELSE "corruption"]

-----------------------------------------------------------------------------
(* src/log_writer.cpp.  A physical record is its type, its length, the     *)
(* zero padding written before it, and the bytes [off, off+length) of the  *)
(* batch it carries.                                                       *)

NewWriter(dest_length) == [block_offset_ |-> dest_length % kBlockSize]

\* slice.size() of the slice handed to Writer::AddRecord: the rep_ of a
\* batch, or a payload [id, len] of len bytes
PayloadSize(b) == IF "ops" \in DOMAIN b THEN BatchSize(b) ELSE b.len

TrailerNone(leftover) == 0

\* Writer::AddRecord, lines 58-69: the zeros that fill the rest of the block
Trailer(leftover) == IF leftover < kHeaderSize THEN leftover ELSE 0

RECURSIVE AddRecordLoop(_, _, _, _, _)
AddRecordLoop(w, b, left, begin, out) ==
    LET leftover == kBlockSize - w.block_offset_
        pad == Trailer(leftover)
        block_offset == IF leftover < kHeaderSize THEN 0 ELSE w.block_offset_
        avail == kBlockSize - block_offset - kHeaderSize
        fragment_length == IF left < avail THEN left ELSE avail
        end == (left = fragment_length)
        type == IF begin /\ end THEN kFullType
                ELSE IF begin THEN kFirstType
                ELSE IF end THEN kLastType
                ELSE kMiddleType
        rec == [type |-> type, length |-> fragment_length, pad |-> pad,
                b |-> b, off |-> PayloadSize(b) - left, torn |-> FALSE,
                tsize |-> 0, garbage_long |-> FALSE]
        w2 == [block_offset_ |-> block_offset + kHeaderSize + fragment_length]
    IN IF left - fragment_length > 0
       THEN AddRecordLoop(w2, b, left - fragment_length, FALSE, Append(out, rec))
       ELSE [w |-> w2, recs |-> Append(out, rec)]

\* An AddRecord that writes nothing
AddRecordNothing(w, b) == [w |-> w, recs |-> <<>>]

\* Writer::AddRecord: the writer afterwards and the physical records emitted
AddRecord(w, b) == AddRecordLoop(w, b, PayloadSize(b), TRUE, <<>>)

-----------------------------------------------------------------------------
(* The directory (Env): log files <n>.log, table files <n>.ldb and LOCK.   *)
(* A log file is its physical records and the number of them that Sync has *)
(* made durable; a table file is the entries written to it and whether it  *)
(* was finished (footer written).                                          *)

EmptyLog == [recs |-> <<>>, synced |-> 0]

EmptyEnv == [logs |-> EmptyFn, tables |-> EmptyFn, lock |-> FALSE]

\* The bytes a record occupies in its file (a torn record: the part written)
RecBytes(r) == IF r.torn THEN r.pad + r.tsize ELSE r.pad + kHeaderSize + r.length

RECURSIVE LogFileSize(_)
LogFileSize(recs) ==
    IF recs = <<>> THEN 0 ELSE RecBytes(Head(recs)) + LogFileSize(Tail(recs))

\* TableBuilder::FileSize after Finish: the entries and the footer (blocks'
\* framing is left out, the size is only compared with 0 and the footer length)
RECURSIVE EntriesSize(_)
EntriesSize(S) ==
    IF S = {} THEN 0
    ELSE LET e == CHOOSE x \in S : TRUE
         IN EncodedLen(e) + EntriesSize(S \ {e})

TableFileSize(S) == EntriesSize(S) + kFooterEncodedLength

\* Table::Open on file number n (through TableCache::FindTable)
TableOpenStatus(e, n) ==
    IF n \notin DOMAIN e.tables THEN "io_error"
    ELSE IF ~e.tables[n].complete THEN "corruption"
    ELSE "ok"

-----------------------------------------------------------------------------
(* src/db_impl.cpp: the engine.  A state st is [db, env]: the members of   *)
(* DBImpl and the directory.  An operation yields the state it leaves, the *)
(* status it returns and, in mids, the directories the operation passes    *)
(* through (what a crash in the middle of it leaves).  A fault names the   *)
(* file operation of Env that fails during the call.                       *)

WriteFaults == {"none", "new_log"}
LogFaults == {"none", "append", "sync"}
FlushFaults == {"none", "build", "close_old"}

\* A BuildTable that leaves the file it could not finish
BuildTableNoRemove(e, n, S, fault) ==
    IF S = {} THEN [env |-> e, status |-> "ok", file_size |-> 0, mids |-> <<>>]
    ELSE IF fault = "build"
    THEN [env |-> [e EXCEPT !.tables =
                     FnPut(@, n, [ents |-> {}, complete |-> FALSE])],
          status |-> "io_error", file_size |-> 0, mids |-> <<>>]
    ELSE LET done == [e EXCEPT !.tables =
                            FnPut(@, n, [ents |-> S, complete |-> TRUE])]
         IN [env |-> done, status |-> TableOpenStatus(done, n),
             file_size |-> TableFileSize(S),
             mids |-> <<[e EXCEPT !.tables =
                           FnPut(@, n, [ents |-> {}, complete |-> FALSE])], done>>]

\* BuildTable for the entries S under file number n.  The file is removed
\* when it cannot be finished; an empty S creates no file.
BuildTable(e, n, S, fault) ==
    IF S = {} THEN [env |-> e, status |-> "ok", file_size |-> 0, mids |-> <<>>]
    ELSE IF fault = "build"
    THEN [env |-> e, status |-> "io_error", file_size |-> 0, mids |-> <<>>]
    ELSE LET partial == [e EXCEPT !.tables =
                            FnPut(@, n, [ents |-> {}, complete |-> FALSE])]
             done == [e EXCEPT !.tables =
                            FnPut(@, n, [ents |-> S, complete |-> TRUE])]
         IN [env |-> done, status |-> TableOpenStatus(done, n),
             file_size |-> TableFileSize(S), mids |-> <<partial, done>>]

FileMeta(n, size, S) ==
    LET sorted == SortedEntries(S)
    IN [number |-> n, file_size |-> size,
        smallest |-> sorted[1].key, largest |-> sorted[Len(sorted)].key]

\* DBImpl::FlushMemTable up to the call of BuildTable: the new log file is
\* created and made the active log, mem_ becomes imm_, and the table number
\* is taken.  The locals of the function are kept in flushing.
FlushBegin(st, fault) ==
    IF st.db.imm_ # NULL \/ st.db.log_ = NULL
    THEN [st |-> st, status |-> "invalid_argument"]
    ELSE
    LET new_log_number == st.db.next_file_number_
        db1 == [st.db EXCEPT !.next_file_number_ = @ + 1]
    IN IF fault = "new_log"
       THEN [st |-> [st EXCEPT !.db = db1], status |-> "io_error"]
       ELSE [st |-> [db |-> [db1 EXCEPT
                               !.logfile_number_ = new_log_number,
                               !.log_ = NewWriter(0),
                               !.imm_ = db1.mem_,
                               !.mem_ = NewMemTable(db1.mem_count + 1),
                               !.mem_count = @ + 1,
                               !.next_file_number_ = @ + 1,
                               !.flushing = [old_log_number |-> db1.logfile_number_,
                                             old_log |-> db1.log_,
                                             new_log_number |-> new_log_number,
                                             table_number |-> db1.next_file_number_]],
                     env |-> [st.env EXCEPT
                                !.logs = FnPut(@, new_log_number, EmptyLog)]],
             status |-> "ok"]

DropImmNot(d) == d

\* DBImpl::FlushMemTable, lines 792-793: imm_->Unref(); imm_ = nullptr
DropImm(d) == [d EXCEPT !.imm_ = NULL]

\* DBImpl::FlushMemTable from the call of BuildTable on
FlushEnd(st, fault) ==
    LET f == st.db.flushing
        bt == BuildTable(st.env, f.table_number, st.db.imm_.ents, fault)
    IN IF bt.status # "ok"
       THEN \* the new log is closed and removed, mem_ and the old log are put back
            [st |-> [db |-> [st.db EXCEPT !.mem_ = st.db.imm_, !.imm_ = NULL,
                                          !.logfile_number_ = f.old_log_number,
                                          !.log_ = f.old_log,
                                          !.flushing = NULL],
                     env |-> [bt.env EXCEPT !.logs = FnDel(@, f.new_log_number)]],
             status |-> bt.status, mids |-> bt.mids]
       ELSE
       LET db3 == DropImm([st.db EXCEPT
                     !.files_ = IF bt.file_size > 0
                                THEN Append(@, FileMeta(f.table_number, bt.file_size,
                                                        st.db.imm_.ents))
                                ELSE @,
                     !.flushing = NULL])
       IN IF fault = "close_old"
          THEN [st |-> [db |-> db3, env |-> bt.env], status |-> "io_error",
                mids |-> bt.mids]
          ELSE [st |-> [db |-> db3,
                        env |-> [bt.env EXCEPT !.logs = FnDel(@, f.old_log_number)]],
                status |-> "ok", mids |-> bt.mids]

\* DBImpl::ApplyBatch
ApplyBatch(d, b) == Iterate(d.mem_, b, BatchSize(b))

\* DBImpl::Write from the log append on, for the batch b whose sequence is
\* set: AddRecord, Sync, ApplyBatch and the start of the flush.  applied
\* tells that the log append and the memtable insert were done, flush whether
\* the call goes on in FlushEnd ("begun"), ended in FlushMemTable ("failed")
\* or did not flush ("none").
WriteAppend(st, b, sync, fault) ==
    LET ar == AddRecord(st.db.log_, b)
        file == st.env.logs[st.db.logfile_number_]
        appended == [file EXCEPT !.recs = @ \o ar.recs]
        written == IF sync
                   THEN [appended EXCEPT !.synced = Len(appended.recs)]
                   ELSE appended
        env1 == [st.env EXCEPT !.logs[st.db.logfile_number_] = written]
        ap == ApplyBatch(st.db, b)
        db1 == [st.db EXCEPT !.log_ = ar.w, !.mem_ = ap.m]
        st1 == [db |-> db1, env |-> env1]
    IN IF fault = "append"
       THEN \* AddRecord fails before anything reaches the file
            [st |-> st, status |-> "io_error", applied |-> FALSE, flush |-> "none"]
       ELSE IF fault = "sync"
       THEN \* the record is in the file, Sync fails
            [st |-> [db |-> [st.db EXCEPT !.log_ = ar.w],
                     env |-> [st.env EXCEPT
                                !.logs[st.db.logfile_number_] = appended]],
             status |-> "io_error", applied |-> FALSE, flush |-> "none"]
       ELSE IF ap.status # "ok"
       THEN [st |-> st1, status |-> ap.status, applied |-> FALSE,
             flush |-> "none"]
       ELSE IF ApproximateMemoryUsage(db1.mem_) > opts.write_buffer_size
       THEN LET f == FlushBegin(st1, fault)
            IN [st |-> f.st, status |-> f.status, applied |-> TRUE,
                flush |-> IF f.status = "ok" THEN "begun" ELSE "failed"]
       ELSE [st |-> st1, status |-> "ok", applied |-> TRUE, flush |-> "none"]

\* DBImpl::Write(write_options, batch) run by one thread alone, up to the call
\* of BuildTable in the flush it triggers; ops are the operations of the
\* batch
Write(st, ops, sync, fault) ==
    LET count == Len(ops)
    IN IF count = 0
       THEN [st |-> st, status |-> "ok", applied |-> FALSE, flush |-> "none"]
       ELSE IF st.db.log_ = NULL
       THEN [st |-> st, status |-> "invalid_argument", applied |-> FALSE,
             flush |-> "none"]
       ELSE WriteAppend([st EXCEPT !.db.sequence_ = @ + count],
                        [seq |-> st.db.sequence_, count |-> count, ops |-> ops],
                        sync, fault)

-----------------------------------------------------------------------------
(* The read path: DBImpl::Get, TableCache::Get, Table::InternalGet and the *)
(* SaveValue callback.                                                     *)

\* SaveValue(arg, found_key, found_value): the TableGetState afterwards and
\* the Status the callback returns
SaveValue(state, user_key, found) ==
    IF found.key # user_key
    THEN [state |-> state, status |-> "ok"]
    ELSE IF found.type = kTypeValue
    THEN [state |-> [value |-> found.val, value_found |-> TRUE], status |-> "ok"]
    ELSE [state |-> state, status |-> "not_found"]

\* Table::InternalGet on the table with entries S: the callback is called on
\* the entry Seek finds; the Status returned is the block iterator's, the
\* callback's own Status is not looked at.
InternalGet(S, key, snapshot, state) ==
    LET found == SeekEntry(S, key, snapshot, kValueTypeForSeek)
    IN IF found # NULL
       THEN [state |-> SaveValue(state, key, found).state, status |-> "ok"]
       ELSE [state |-> state, status |-> "ok"]

\* TableCache::Get: open the table through the cache, then Table::InternalGet
TableCacheGet(e, number, key, snapshot, state) ==
    IF TableOpenStatus(e, number) # "ok"
    THEN [state |-> state, status |-> TableOpenStatus(e, number)]
    ELSE InternalGet(e.tables[number].ents, key, snapshot, state)

\* The loop of DBImpl::Get over files_, from the newest (last) file down
RECURSIVE GetFromFiles(_, _, _, _, _)
GetFromFiles(st, i, key, snapshot, state) ==
    IF i = 0 THEN [status |-> "not_found", value |-> 0]
    ELSE LET r == TableCacheGet(st.env, st.db.files_[i].number, key, snapshot, state)
         IN IF r.status # "ok" THEN [status |-> r.status, value |-> 0]
            ELSE IF r.state.value_found
            THEN [status |-> "ok", value |-> r.state.value]
            ELSE GetFromFiles(st, i - 1, key, snapshot, r.state)

\* DBImpl::Get(read_options, key): [status, value].  read_options.snapshot
\* is not read by the function.
Get(st, read_options, key) ==
    LET snapshot == IF st.db.sequence_ = 0 THEN 0 ELSE st.db.sequence_ - 1
        m == MemTableGet(st.db.mem_, key, snapshot)
        i == IF st.db.imm_ # NULL
             THEN MemTableGet(st.db.imm_, key, snapshot)
             ELSE [hit |-> FALSE, status |-> "ok", value |-> 0]
    IN IF m.hit THEN [status |-> m.status, value |-> m.value]
       ELSE IF i.hit THEN [status |-> i.status, value |-> i.value]
       ELSE GetFromFiles(st, Len(st.db.files_), key, snapshot,
                         [value |-> 0, value_found |-> FALSE])

-----------------------------------------------------------------------------
(* src/log_reader.cpp.  Reading a log file yields a sequence of events:    *)
(* a logical record handed to the caller, [kind |-> "rec", b, n] (the      *)
(* first n bytes of batch b), or a call of the reporter,                   *)
(* [kind |-> "corrupt"].                                                   *)

\* The bytes that were assembled in scratch, as a record: the batch of the
\* first fragment and the length of the run of its bytes from offset 0
RECURSIVE ContiguousBytes(_, _, _)
ContiguousBytes(frags, b, at) ==
    IF frags = <<>> THEN at
    ELSE IF Head(frags).b = b /\ Head(frags).off = at
    THEN ContiguousBytes(Tail(frags), b, at + Head(frags).length)
    ELSE at

RecordOf(frags) ==
    [kind |-> "rec", b |-> frags[1].b,
     n |-> ContiguousBytes(frags, frags[1].b, 0)]

CorruptEvent == [kind |-> "corrupt"]

\* Reader::ReadRecord, case kEof: a partial fragmented record is dropped
\* without a report and nothing is returned.
ReadRecordAtEof(in_fragmented_record, scratch) == <<>>

\* The loop of Reader::ReadRecord / Reader::ReadPhysicalRecord over the
\* physical records i.. of a file of file_size bytes; offset is the file
\* offset of record i, skip the block whose remaining bytes were dropped
\* (buffer_.clear()).  A record's garbage_long tells whether the header
\* spliced from its torn header and the bytes written after it decodes to a
\* length that passes the buffer's end.
RECURSIVE ReadLoop(_, _, _, _, _, _, _, _)
ReadLoop(recs, i, offset, skip, in_fragmented_record, scratch, events, file_size) ==
    IF i > Len(recs)
    THEN events \o ReadRecordAtEof(in_fragmented_record, scratch)
    ELSE
    LET r == recs[i]
        start == offset + r.pad
        blk == start \div kBlockSize
        next == offset + RecBytes(r)
        block_end == (blk + 1) * kBlockSize
        eof == file_size < block_end
        remaining == (IF eof THEN file_size ELSE block_end) - start
        too_long == IF r.tsize >= kHeaderSize
                    THEN kHeaderSize + r.length > remaining
                    ELSE r.garbage_long
        \* where ReadPhysicalRecord takes the next header from: the bytes
        \* left in the block when they are at least kHeaderSize, else the
        \* start of the next block
        in_block == offset % kBlockSize
        header_at == IF in_block # 0 /\ kBlockSize - in_block < kHeaderSize
                     THEN offset + kBlockSize - in_block ELSE offset
    IN IF blk = skip
       THEN ReadLoop(recs, i + 1, next, skip, in_fragmented_record, scratch,
                     events, file_size)
       ELSE IF ~r.torn /\ (header_at # start \/ kHeaderSize + r.length > remaining)
       THEN \* the header is not where it is read from, or the record passes
            \* the end of the buffer
            IF header_at = start /\ eof
            THEN \* kEof
                 events \o ReadRecordAtEof(in_fragmented_record, scratch)
            ELSE \* kBadRecord: bad record length or checksum mismatch
                 ReadLoop(recs, i + 1, next, header_at \div kBlockSize, FALSE, <<>>,
                          events \o <<CorruptEvent>>
                                 \o (IF in_fragmented_record
                                     THEN <<CorruptEvent>> ELSE <<>>),
                          file_size)
       ELSE IF r.torn
       THEN IF (i = Len(recs) /\ r.tsize < kHeaderSize + r.length)
                 \/ (too_long /\ eof)
            THEN \* kEof
                 events \o ReadRecordAtEof(in_fragmented_record, scratch)
            ELSE \* kBadRecord: bad record length or checksum mismatch
                 ReadLoop(recs, i + 1, next, blk, FALSE, <<>>,
                          events \o <<CorruptEvent>>
                                 \o (IF in_fragmented_record
                                     THEN <<CorruptEvent>> ELSE <<>>),
                          file_size)
       ELSE IF r.type = kFullType
       THEN ReadLoop(recs, i + 1, next, skip, FALSE, <<>>,
                     events \o (IF in_fragmented_record /\ scratch # <<>>
                                THEN <<CorruptEvent>> ELSE <<>>)
                            \o <<RecordOf(<<r>>)>>,
                     file_size)
       ELSE IF r.type = kFirstType
       THEN ReadLoop(recs, i + 1, next, skip, TRUE, <<r>>,
                     events \o (IF in_fragmented_record /\ scratch # <<>>
                                THEN <<CorruptEvent>> ELSE <<>>),
                     file_size)
       ELSE IF ~in_fragmented_record
       THEN \* kMiddleType or kLastType without a start
            ReadLoop(recs, i + 1, next, skip, FALSE, <<>>,
                     events \o <<CorruptEvent>>, file_size)
       ELSE IF r.type = kMiddleType
       THEN ReadLoop(recs, i + 1, next, skip, TRUE, Append(scratch, r),
                     events, file_size)
       ELSE \* kLastType
            ReadLoop(recs, i + 1, next, skip, FALSE, <<>>,
                     Append(events, RecordOf(Append(scratch, r))),
                     file_size)

\* All calls of Reader::ReadRecord on a log file until it returns false
ReadLog(file) ==
    ReadLoop(file.recs, 1, 0, -1, FALSE, <<>>, <<>>, LogFileSize(file.recs))

-----------------------------------------------------------------------------
(* src/db_impl.cpp: DB::Open and recovery                                  *)

\* DBImpl::DBImpl
NewDBImpl ==
    [mem_ |-> NewMemTable(1), imm_ |-> NULL, sequence_ |-> 0,
     next_file_number_ |-> 1, files_ |-> <<>>, logfile_number_ |-> 0,
     log_ |-> NULL, flushing |-> NULL, mem_count |-> 1]

\* The numbers in S in ascending order (std::sort)
RECURSIVE SortedNumbers(_)
SortedNumbers(S) ==
    IF S = {} THEN <<>>
    ELSE LET m == CHOOSE x \in S : \A y \in S : x <= y
         IN <<m>> \o SortedNumbers(S \ {m})

\* A recovery that starts the file numbers at 1 whatever the directory holds
NextFileNumberOne(max_number) == 1

\* DBImpl::RecoverTableFiles, lines 712-716: next_file_number_ from the
\* largest number among the file names (uint64_t: never 0 after the + 1
\* for the numbers of the model)
NextFileNumber(max_number) == IF max_number + 1 = 0 THEN 1 ELSE max_number + 1

\* DBImpl::RecoverTableFiles: files_, the log numbers and next_file_number_
\* from the directory's file names.  A table file that cannot be opened
\* ends the function with the iterator's status.
RecoverTableFiles(d, e) ==
    LET numbers == DOMAIN e.tables
        bad == {n \in numbers : TableOpenStatus(e, n) # "ok"}
        good == {n \in numbers : e.tables[n].ents # {}}
        sorted == SortedNumbers(good)
        max_number == SetMax(numbers \cup DOMAIN e.logs)
    IN IF bad # {}
       THEN [db |-> d, status |-> "corruption", log_numbers |-> <<>>]
       ELSE [db |-> [d EXCEPT
                       !.files_ = [i \in 1..Len(sorted) |->
                                     FileMeta(sorted[i],
                                              TableFileSize(e.tables[sorted[i]].ents),
                                              e.tables[sorted[i]].ents)],
                       !.next_file_number_ = NextFileNumber(max_number)],
             status |-> "ok",
             log_numbers |-> SortedNumbers(DOMAIN e.logs)]

\* A Recover that leaves sequence_ at 0 whatever the tables hold
RecoveredSequenceZero(d, e) == 0

\* The scan of DBImpl::Recover over the tables of files_ for the largest
\* sequence: sequence_ afterwards
RecoveredSequence(d, e) ==
    LET seqs == UNION {{x.seq : x \in e.tables[d.files_[i].number].ents} :
                         i \in 1..Len(d.files_)}
    IN IF seqs = {} THEN 0 ELSE SetMax(seqs) + 1

\* A replay that leaves sequence_ as it is
AdvanceSequenceNot(sequence, next) == sequence

\* DBImpl::RecoverLogFiles, lines 870-874: sequence_ after a batch that ends
\* before next was replayed
AdvanceSequence(sequence, next) == IF next > sequence THEN next ELSE sequence

\* A reporter that is given a Status to fill whatever the options say
ReporterStatusAlways(paranoid_checks) == "corruption"

\* LogReporter::Corruption: read_status after the call.  The reporter has
\* the address of read_status only under paranoid_checks.
ReporterStatus(paranoid_checks) ==
    IF paranoid_checks THEN "corruption" ELSE "ok"

\* The while loop of DBImpl::RecoverLogFiles over the records of one log
\* file: events j.. of the reader.  s is the Status of the loop body,
\* read_status the one the reporter sets under paranoid_checks.
RECURSIVE ReplayLoop(_, _, _, _, _)
ReplayLoop(st, events, j, compactions, mids) ==
    IF j > Len(events)
    THEN [st |-> st, s |-> "ok", read_status |-> "ok",
          compactions |-> compactions, mids |-> mids]
    ELSE
    LET ev == events[j]
    IN IF ev.kind = "corrupt" \/ ev.n < kHeader
       THEN IF ReporterStatus(opts.paranoid_checks) # "ok"
            THEN [st |-> st, s |-> "ok",
                  read_status |-> ReporterStatus(opts.paranoid_checks),
                  compactions |-> compactions, mids |-> mids]
            ELSE ReplayLoop(st, events, j + 1, compactions, mids)
       ELSE
       LET itr == Iterate(st.db.mem_, ev.b, ev.n)
           next == ev.b.seq + ev.b.count
           db1 == [st.db EXCEPT !.mem_ = itr.m,
                                !.sequence_ = AdvanceSequence(@, next)]
       IN IF itr.status # "ok"
          THEN [st |-> [st EXCEPT !.db = db1], s |-> itr.status,
                read_status |-> "ok", compactions |-> compactions, mids |-> mids]
          ELSE IF ApproximateMemoryUsage(db1.mem_) > opts.write_buffer_size
          THEN LET table_number == db1.next_file_number_
                   bt == BuildTable(st.env, table_number, db1.mem_.ents, "none")
                   db2 == [db1 EXCEPT
                             !.next_file_number_ = @ + 1,
                             !.files_ = IF bt.status = "ok" /\ bt.file_size > 0
                                        THEN Append(@, FileMeta(table_number,
                                                 bt.file_size, db1.mem_.ents))
                                        ELSE @,
                             !.mem_ = NewMemTable(db1.mem_count + 1),
                             !.mem_count = @ + 1]
                   st2 == [db |-> db2, env |-> bt.env]
               IN IF bt.status # "ok"
                  THEN [st |-> st2, s |-> bt.status, read_status |-> "ok",
                        compactions |-> compactions + 1, mids |-> mids \o bt.mids]
                  ELSE ReplayLoop(st2, events, j + 1, compactions + 1,
                                  mids \o bt.mids)
          ELSE ReplayLoop([st EXCEPT !.db = db1], events, j + 1, compactions, mids)

RECURSIVE RecoverLogFiles(_, _, _, _)
RECURSIVE RecoverLogFlush(_, _, _, _)

\* DBImpl::RecoverLogFiles: the body of the for loop for log_numbers[i] after
\* the records of the log were replayed with the outcome rl
RecoverLogFile(rl, log_numbers, i) ==
    LET log_number == log_numbers[i]
        last_log == (i = Len(log_numbers))
        d == rl.st.db
        table_number == d.next_file_number_
        flush == ApproximateMemoryUsage(d.mem_) > 0
    IN IF rl.s # "ok" THEN [st |-> rl.st, status |-> rl.s, mids |-> rl.mids]
       ELSE IF rl.read_status # "ok"
       THEN [st |-> rl.st, status |-> rl.read_status, mids |-> rl.mids]
       ELSE IF opts.reuse_logs /\ last_log /\ rl.compactions = 0
       THEN [st |-> [rl.st EXCEPT
                       !.db.logfile_number_ = log_number,
                       !.db.log_ = NewWriter(LogFileSize(
                                      rl.st.env.logs[log_number].recs))],
             status |-> "ok", mids |-> rl.mids]
       ELSE IF ~flush
       THEN RecoverLogFiles(
              [db |-> d, env |-> [rl.st.env EXCEPT !.logs = FnDel(@, log_number)]],
              log_numbers, i + 1,
              rl.mids \o <<[rl.st.env EXCEPT !.logs = FnDel(@, log_number)]>>)
       ELSE RecoverLogFlush(rl, BuildTable(rl.st.env, table_number, d.mem_.ents,
                                           "none"), log_numbers, i)

\* DBImpl::RecoverLogFiles: the end of the loop body when the memtable
\* replayed from log_numbers[i] is written to a table with the outcome bt
RecoverLogFlush(rl, bt, log_numbers, i) ==
    LET d == rl.st.db
        db2 == [d EXCEPT
                  !.next_file_number_ = @ + 1,
                  !.files_ = IF bt.status = "ok" /\ bt.file_size > 0
                             THEN Append(@, FileMeta(d.next_file_number_,
                                                     bt.file_size, d.mem_.ents))
                             ELSE @,
                  !.mem_ = NewMemTable(d.mem_count + 1),
                  !.mem_count = @ + 1]
    IN IF bt.status # "ok"
       THEN [st |-> [db |-> db2, env |-> bt.env], status |-> bt.status,
             mids |-> rl.mids \o bt.mids]
       ELSE RecoverLogFiles(
              [db |-> db2, env |-> [bt.env EXCEPT !.logs = FnDel(@, log_numbers[i])]],
              log_numbers, i + 1,
              rl.mids \o bt.mids
                \o <<[bt.env EXCEPT !.logs = FnDel(@, log_numbers[i])]>>)

\* DBImpl::RecoverLogFiles: the for loop over log_numbers, from index i
RecoverLogFiles(st, log_numbers, i, mids) ==
    IF i > Len(log_numbers) THEN [st |-> st, status |-> "ok", mids |-> mids]
    ELSE RecoverLogFile(ReplayLoop(st, ReadLog(st.env.logs[log_numbers[i]]), 1, 0,
                                   mids),
                        log_numbers, i)

\* DBImpl::NewLogFile
NewLogFile(st) ==
    LET new_log_number == st.db.next_file_number_
    IN [db |-> [st.db EXCEPT !.next_file_number_ = @ + 1,
                             !.logfile_number_ = new_log_number,
                             !.log_ = NewWriter(0)],
        env |-> [st.env EXCEPT !.logs = FnPut(@, new_log_number, EmptyLog)]]

\* DBImpl::Recover after RecoverLogFiles returned rl: a new log file unless
\* the last one is reused
RecoverEnd(rl) ==
    IF rl.status # "ok" THEN rl
    ELSE IF rl.st.db.log_ = NULL
    THEN [st |-> NewLogFile(rl.st), status |-> "ok", mids |-> rl.mids]
    ELSE rl

\* DBImpl::Recover on a fresh DBImpl and the directory e: the state it leaves,
\* its Status and the directories a crash during it can leave
Recover(e) ==
    LET d0 == NewDBImpl
    IN IF e.lock
       THEN [st |-> [db |-> d0, env |-> e], status |-> "io_error", mids |-> <<>>]
       ELSE
       LET e1 == [e EXCEPT !.lock = TRUE]
           rt == RecoverTableFiles(d0, e1)
           db_exists == rt.status = "ok"
                          /\ (rt.db.files_ # <<>> \/ rt.log_numbers # <<>>)
       IN IF rt.status # "ok"
          THEN [st |-> [db |-> rt.db, env |-> e1], status |-> rt.status,
                mids |-> <<>>]
          ELSE IF ~db_exists /\ ~opts.create_if_missing
          THEN [st |-> [db |-> rt.db, env |-> e1], status |-> "invalid_argument",
                mids |-> <<>>]
          ELSE IF db_exists /\ opts.error_if_exists
          THEN [st |-> [db |-> rt.db, env |-> e1], status |-> "invalid_argument",
                mids |-> <<>>]
          ELSE
          RecoverEnd(RecoverLogFiles(
                       [db |-> [rt.db EXCEPT
                                  !.sequence_ = RecoveredSequence(rt.db, e1)],
                        env |-> e1],
                       rt.log_numbers, 1, <<>>))

\* DBImpl::~DBImpl: the log file is closed and the lock released
CloseEnv(e) == [e EXCEPT !.lock = FALSE]

-----------------------------------------------------------------------------
(* include/table/merger.cpp: MergingIterator over the children's entries.  *)
(* C[i] is the set of entries child i iterates over; a child's position is *)
(* the entry it stands on, or NULL when it is not Valid.                   *)

\* SeekToFirst of a child
ChildFirst(S) ==
    IF S = {} THEN NULL
    ELSE CHOOSE x \in S : \A y \in S : InternalKeyLeq(x, y)

\* Next of a child standing on p
ChildNext(S, p) ==
    LET c == {e \in S : InternalKeyLess(p, e)}
    IN IF c = {} THEN NULL
       ELSE CHOOSE x \in c : \A y \in c : InternalKeyLeq(x, y)

\* A FindSmallest that keeps the last of the children with the smallest key
FindSmallestTieLast(pos) ==
    LET valid == {i \in 1..Len(pos) : pos[i] # NULL}
    IN IF valid = {} THEN 0
       ELSE CHOOSE i \in valid :
              \A j \in valid : /\ ~InternalKeyLess(pos[j], pos[i])
                                /\ (InternalKeyLess(pos[i], pos[j]) \/ j <= i)

\* MergingIterator::FindSmallest: the loop over children i..n, smallest the
\* child found so far (0: none)
RECURSIVE FindSmallestLoop(_, _, _)
FindSmallestLoop(pos, i, smallest) ==
    IF i > Len(pos) THEN smallest
    ELSE IF pos[i] # NULL /\ (smallest = 0 \/ InternalKeyLess(pos[i], pos[smallest]))
    THEN FindSmallestLoop(pos, i + 1, i)
    ELSE FindSmallestLoop(pos, i + 1, smallest)

FindSmallest(pos) == FindSmallestLoop(pos, 1, 0)

\* MergingIterator::SeekToFirst
MergingSeekToFirst(C) ==
    LET pos == [i \in 1..Len(C) |-> ChildFirst(C[i])]
    IN [pos |-> pos, current_ |-> FindSmallest(pos)]

\* MergingIterator::Next, in direction kForward
MergingNext(mi, C) ==
    LET pos == [mi.pos EXCEPT ![mi.current_] = ChildNext(C[mi.current_], @)]
    IN [pos |-> pos, current_ |-> FindSmallest(pos)]

-----------------------------------------------------------------------------
(* src/db_impl.cpp: DBIter.  saved_key_ = 0 stands for the empty string.    *)

\* FindNextUserEntry without the test of skipping: an older value of a key
\* that was already yielded or deleted is shown
RECURSIVE FindNextUserEntryNoSkip(_, _, _, _, _)
FindNextUserEntryNoSkip(mi, skipping, skip, C, sequence) ==
    LET ikey == mi.pos[mi.current_]
        next == MergingNext(mi, C)
    IN IF ikey.seq <= sequence /\ ikey.type = kTypeValue
       THEN [valid_ |-> TRUE, saved_key_ |-> 0, mi |-> mi]
       ELSE IF next.current_ = 0
       THEN [valid_ |-> FALSE, saved_key_ |-> 0, mi |-> next]
       ELSE FindNextUserEntryNoSkip(next, skipping, skip, C, sequence)

\* DBIter::FindNextUserEntry(skipping, skip)
RECURSIVE FindNextUserEntry(_, _, _, _, _)
FindNextUserEntry(mi, skipping, skip, C, sequence) ==
    LET ikey == mi.pos[mi.current_]
        visible == ikey.seq <= sequence
        deletion == visible /\ ikey.type = kTypeDeletion
        shown == visible /\ ikey.type = kTypeValue
                   /\ ~(skipping /\ ikey.key <= skip)
        next == MergingNext(mi, C)
    IN IF shown
       THEN [valid_ |-> TRUE, saved_key_ |-> 0, mi |-> mi]
       ELSE IF next.current_ = 0
       THEN [valid_ |-> FALSE, saved_key_ |-> 0, mi |-> next]
       ELSE FindNextUserEntry(next,
                              IF deletion THEN TRUE ELSE skipping,
                              IF deletion THEN ikey.key ELSE skip,
                              C, sequence)

\* DBIter::SeekToFirst
DBIterSeekToFirst(C, sequence) ==
    LET mi == MergingSeekToFirst(C)
    IN IF mi.current_ # 0
       THEN FindNextUserEntry(mi, FALSE, 0, C, sequence)
       ELSE [valid_ |-> FALSE, saved_key_ |-> 0, mi |-> mi]

\* DBIter::Next, in direction kForward
DBIterNext(dbi, C, sequence) ==
    LET saved_key == dbi.mi.pos[dbi.mi.current_].key
        mi == MergingNext(dbi.mi, C)
    IN IF mi.current_ = 0
       THEN [valid_ |-> FALSE, saved_key_ |-> 0, mi |-> mi]
       ELSE FindNextUserEntry(mi, TRUE, saved_key, C, sequence)

\* DBIter::key and DBIter::value
DBIterPair(dbi) ==
    [key |-> dbi.mi.pos[dbi.mi.current_].key,
     value |-> dbi.mi.pos[dbi.mi.current_].val]

\* DBImpl::NewIterator: the snapshot and the children (the memtable, the
\* immutable memtable when there is one, and every file of files_)
NewIterator(st) ==
    [sequence_ |-> IF st.db.sequence_ = 0 THEN 0 ELSE st.db.sequence_ - 1,
     children |-> <<[kind |-> "mem", ref |-> st.db.mem_.id]>>
                   \o (IF st.db.imm_ # NULL
                       THEN <<[kind |-> "mem", ref |-> st.db.imm_.id]>>
                       ELSE <<>>)
                   \o [i \in 1..Len(st.db.files_) |->
                         [kind |-> "table", ref |-> st.db.files_[i].number]]]

\* What a child reads: the entries of the memtable or table it points to;
\* freed(ref) is what the memory of a memtable that was deleted holds.
ChildEntries(st, child, freed) ==
    IF child.kind = "table" THEN st.env.tables[child.ref].ents
    ELSE IF st.db.mem_.id = child.ref THEN st.db.mem_.ents
    ELSE IF st.db.imm_ # NULL /\ st.db.imm_.id = child.ref THEN st.db.imm_.ents
    ELSE freed[child.ref]

ChildrenEntries(st, children, freed) ==
    [i \in 1..Len(children) |-> ChildEntries(st, children[i], freed)]

\* The pairs a forward iteration yields from the position dbi on
RECURSIVE ScanFrom(_, _, _)
ScanFrom(dbi, C, sequence) ==
    IF ~dbi.valid_ THEN <<>>
    ELSE <<DBIterPair(dbi)>> \o ScanFrom(DBIterNext(dbi, C, sequence), C, sequence)

-----------------------------------------------------------------------------
(* The client of one database: the calls of the DB interface as actions.   *)
(* gh records the calls made: n the number of write calls, nid the number  *)
(* of operations written, hist the batches in the order of the calls with  *)
(* the status each call returned, faulted whether a file operation failed, *)
(* crashes and opens the numbers of crashes and reopens, opened what get returned for every key   *)
(* when the database was opened if nothing was written since, first the    *)
(* same for the open before a close.                                       *)
(* A value is identified by the number of the operation that wrote it.     *)

Options(write_buffer_size, paranoid_checks, reuse_logs) ==
    [write_buffer_size |-> write_buffer_size, create_if_missing |-> TRUE,
     error_if_exists |-> FALSE, paranoid_checks |-> paranoid_checks,
     reuse_logs |-> reuse_logs]

PutOp(key, len) == [type |-> kTypeValue, key |-> key, val |-> 0, len |-> len]

DeleteOp(key) == [type |-> kTypeDeletion, key |-> key, val |-> 0, len |-> 0]

\* The two-operation batches the client writes
Batches ==
    {<<PutOp(1, SmallLen), PutOp(MaxKey, SmallLen)>>,
     <<PutOp(1, LargeLen), DeleteOp(MaxKey)>>}

\* The numbers of the log and table files that are in directory e1 and were
\* not in e0
Created(e0, e1) ==
    (DOMAIN e1.logs \ DOMAIN e0.logs) \cup (DOMAIN e1.tables \ DOMAIN e0.tables)

\* gh.used: the numbers of the files seen in the directory so far;
\* gh.reused: a file was created under a number of gh.used
NoGhost ==
    [n |-> 0, nid |-> 0, hist |-> <<>>, faulted |-> FALSE, crashes |-> 0,
     opens |-> 0, opened |-> NULL, first |-> NULL,
     closed |-> NULL, used |-> {}, reused |-> FALSE]

NoResult == [op |-> "open", status |-> "ok", gets |-> [k \in Keys |-> [status |-> "not_found", value |-> 0]], replay |-> [dropped |-> FALSE, after |-> {}, whole |-> {}]]

\* DB::Open of an empty directory
InitDB(option_set) ==
    /\ opts \in option_set
    /\ \E r \in {Recover(EmptyEnv)} : db = r.st.db /\ env = r.st.env
    /\ res = NoResult
    /\ gh = [NoGhost EXCEPT !.used = Created(EmptyEnv, env)]

\* DB::Write: the call up to the point where it returns or starts to build
\* the table of the flush
DoWrite(ops0, sync, fault) ==
    /\ db # NULL
    /\ db.flushing = NULL
    /\ gh.n < MaxWrites
    /\ \E ops \in {[i \in 1..Len(ops0) |-> [ops0[i] EXCEPT !.val = gh.nid + i]]} :
       \E w \in {Write([db |-> db, env |-> env], ops, sync, fault)} :
       \E status \in {IF w.flush = "begun" THEN "pending" ELSE w.status} :
          /\ fault # "none" => ~gh.faulted /\ w.status # "ok"
          /\ fault = "sync" => sync
          /\ db' = w.st.db
          /\ env' = w.st.env
          /\ res' = [op |-> "write", status |-> status, applied |-> w.applied,
                     flush |-> w.flush, fault |-> fault]
          /\ gh' = [gh EXCEPT
                      !.n = @ + 1,
                      !.nid = @ + Len(ops),
                      !.hist = Append(@, [seq |-> db.sequence_, ops |-> ops,
                                          sync |-> sync, status |-> status]),
                      !.used = @ \cup Created(env, w.st.env),
                      !.reused = @ \/ Created(env, w.st.env) \cap gh.used # {},
                      !.faulted = @ \/ fault # "none",
                      !.opened = NULL]

\* DB::Put(options, key, value)
Put(key, len, sync, fault) ==
    /\ DoWrite(<<PutOp(key, len)>>, sync, fault)
    /\ UNCHANGED <<locks, skl, cache, opts, it, thr, sch>>

\* DB::Delete(options, key)
Delete(key, sync, fault) ==
    /\ DoWrite(<<DeleteOp(key)>>, sync, fault)
    /\ UNCHANGED <<locks, skl, cache, opts, it, thr, sch>>

\* DB::Write(options, batch) with a batch of several operations
WriteBatch(ops, sync, fault) ==
    /\ DoWrite(ops, sync, fault)
    /\ UNCHANGED <<locks, skl, cache, opts, it, thr, sch>>

\* The iterator of the client after MemTable::Unref deleted memtable m: the
\* iterator was given no reference, what its child points to is freed memory
\* that held m's entries.
AfterUnref(m) ==
    IF it = NULL THEN it
    ELSE [it EXCEPT !.freed = FnPut(@, m.id, m.ents)]

\* The rest of a DB::Write that flushes: DBImpl::FlushMemTable from
\* BuildTable on (where the memtable that was flushed, or on failure the new
\* one, is deleted), and the return of Write with its status
FlushFinish(fault) ==
    /\ db # NULL
    /\ db.flushing # NULL
    /\ \E f \in {FlushEnd([db |-> db, env |-> env], fault)} :
          /\ fault # "none" => ~gh.faulted /\ f.status # "ok"
          /\ db' = f.st.db
          /\ env' = f.st.env
          /\ res' = [op |-> "write", status |-> f.status, applied |-> TRUE,
                     flush |-> IF f.status = "ok" THEN "done" ELSE "failed",
                     fault |-> fault, flushing |-> db.flushing, imm |-> db.imm_]
          /\ gh' = [gh EXCEPT !.hist[Len(gh.hist)].status = f.status,
                              !.faulted = @ \/ fault # "none",
                              !.used = @ \cup Created(env, f.st.env),
                              !.reused = @ \/ Created(env, f.st.env) \cap gh.used # {}]
          /\ it' = AfterUnref(IF f.st.db.mem_.id = db.imm_.id
                               THEN db.mem_ ELSE db.imm_)
    /\ UNCHANGED <<locks, skl, cache, opts, thr, sch>>

\* DBImpl::GetSnapshot
GetSnapshot == NULL

\* A read changes res only: reading from the state a read left reaches the
\* states that reading from the state before that read reaches, so reads are
\* taken from the states a write or an open left.
AfterUpdate == res.op \notin {"get", "scan"}

\* DB::Get(read_options, key).  With explicit, the caller passes the handle
\* GetSnapshot returned when the last sequence assigned was s.
DoGet(key, explicit, s) ==
    /\ db # NULL
    /\ AfterUpdate
    /\ db.sequence_ > 0
    /\ s < db.sequence_
    /\ IF explicit
       THEN \E i \in 1..Len(gh.hist) : s = gh.hist[i].seq + Len(gh.hist[i].ops) - 1
       ELSE s = db.sequence_ - 1
    /\ \E r \in {Get([db |-> db, env |-> env],
                      [snapshot |-> IF explicit THEN GetSnapshot ELSE NULL], key)} :
         res' = [op |-> "get", key |-> key, explicit |-> explicit, s |-> s,
                  status |-> r.status, value |-> r.value]
    /\ UNCHANGED <<locks, skl, cache, opts, db, env, gh, it, thr, sch>>

\* DB::NewIterator(ReadOptions()), SeekToFirst, Next until the iterator is
\* not Valid, collecting key() and value(); then the iterator is deleted
DoScan ==
    /\ db # NULL
    /\ AfterUpdate
    /\ \E i \in {NewIterator([db |-> db, env |-> env])} :
         \E C \in {ChildrenEntries([db |-> db, env |-> env], i.children, EmptyFn)} :
           res' = [op |-> "scan", sequence |-> i.sequence_,
                   pairs |-> ScanFrom(DBIterSeekToFirst(C, i.sequence_), C,
                                      i.sequence_)]
    /\ UNCHANGED <<locks, skl, cache, opts, db, env, gh, it, thr, sch>>

Init ==
    /\ InitDB({Options(w, FALSE, FALSE) : w \in WriteBufferSizes})
    /\ it = NULL
    /\ thr = <<>>
    /\ cache = NULL
    /\ locks = NULL
    /\ skl = NULL
    /\ sch = NULL

Next ==
    \/ \E k \in Keys, len \in ValueLens, f \in WriteFaults : Put(k, len, FALSE, f)
    \/ \E k \in Keys, f \in WriteFaults : Delete(k, FALSE, f)
    \/ \E ops \in Batches, f \in WriteFaults : WriteBatch(ops, FALSE, f)
    \/ \E f \in FlushFaults : FlushFinish(f)
    \/ \E k \in Keys, explicit \in BOOLEAN, s \in 0..(MaxWrites * 2) :
         DoGet(k, explicit, s)
    \/ DoScan

Spec == Init /\ [][Next]_vars

-----------------------------------------------------------------------------
(* What the calls made so far say a read must return.                      *)

\* The entries of the batches written so far
Written == UNION {BatchEntries(gh.hist[i]) : i \in 1..Len(gh.hist)}

\* The entries the database holds: memtable, immutable memtable and the
\* tables of files_
StoredEntries ==
    db.mem_.ents
      \cup (IF db.imm_ # NULL THEN db.imm_.ents ELSE {})
      \cup UNION {env.tables[db.files_[i].number].ents : i \in 1..Len(db.files_)}

\* The entry of E for key written last among those with sequence <= s
NewestVisible(E, key, s) ==
    LET c == {e \in E : e.key = key /\ e.seq <= s}
    IN IF c = {} THEN NULL
       ELSE CHOOSE e \in c : \A y \in c : y.val <= e.val

\* What get(key) at sequence s returns when E is what was written
ExpectedGet(E, key, s) ==
    LET e == NewestVisible(E, key, s)
    IN IF e # NULL /\ e.type = kTypeValue
       THEN [status |-> "ok", value |-> e.val]
       ELSE [status |-> "not_found", value |-> 0]

\* The pairs a forward scan at sequence s yields for the keys key..MaxKey
RECURSIVE ExpectedScan(_, _, _)
ExpectedScan(E, key, s) ==
    IF key > MaxKey THEN <<>>
    ELSE LET e == NewestVisible(E, key, s)
         IN (IF e # NULL /\ e.type = kTypeValue
             THEN <<[key |-> key, value |-> e.val]>> ELSE <<>>)
              \o ExpectedScan(E, key + 1, s)

LastSequence == IF db.sequence_ = 0 THEN 0 ELSE db.sequence_ - 1

-----------------------------------------------------------------------------
\* C1: when no file operation has failed and no flush is in progress, a get
\* without a snapshot returns the value of the latest put of the key, or
\* NotFound when the latest write of the key is a delete or there is none,
\* also after writes that flushed the memtable to a table.
C1_GetReturnsLatestWrite ==
    (res.op = "get" /\ ~res.explicit /\ ~gh.faulted /\ db.flushing = NULL)
      => [status |-> res.status, value |-> res.value]
           = ExpectedGet(Written, res.key, LastSequence)

\* C4: a write whose log append and memtable insert succeeded and whose
\* flush then failed returns OK.
C4_WriteOkWhenFlushFails ==
    (res.op = "write" /\ res.applied /\ res.flush = "failed")
      => res.status = "ok"

\* C5: a get with the snapshot handle taken at sequence s returns the value
\* of the entry of the key with the greatest sequence <= s, NotFound when
\* that entry is a deletion or there is none.
C5_GetAtSnapshot ==
    (res.op = "get" /\ res.explicit /\ ~gh.faulted /\ db.flushing = NULL)
      => [status |-> res.status, value |-> res.value]
           = ExpectedGet(Written, res.key, res.s)

\* C6: a forward scan from SeekToFirst yields, in ascending key order, one
\* pair (key, newest value) for each key whose newest entry at the
\* iterator's sequence is a value and nothing for a key whose newest entry
\* is a deletion, wherever the entries are stored.
C6_ScanYieldsNewestValues ==
    res.op = "scan" => res.pairs = ExpectedScan(StoredEntries, 1, res.sequence)

\* C6 witness: a scan while the immutable memtable holds a deletion of a key
\* whose older value is in a table, and a table is in files_
C6_Witness ==
    /\ res.op = "scan"
    /\ db.imm_ # NULL
    /\ db.files_ # <<>>
    /\ \E d \in db.imm_.ents :
         /\ d.type = kTypeDeletion
         /\ \E i \in 1..Len(db.files_) :
              \E v \in env.tables[db.files_[i].number].ents :
                v.key = d.key /\ v.type = kTypeValue

-----------------------------------------------------------------------------
(* Crash, close and reopen.  A crash keeps of every log file the records   *)
(* that were synced and any number of the records appended after them,     *)
(* then possibly a part of the next record; files created or removed stay  *)
(* so; the LOCK is released with the process.                              *)

\* What is left of a record that was cut off: its first TornHeaderBytes
\* bytes, or its header and half of its payload
TornRecords(r) ==
    {[r EXCEPT !.torn = TRUE, !.tsize = TornHeaderBytes, !.garbage_long = g] :
       g \in BOOLEAN}
      \cup {[r EXCEPT !.torn = TRUE, !.tsize = kHeaderSize + (r.length \div 2)]}

CrashLogs(file) ==
    LET kept(n) == SubSeq(file.recs, 1, n)
    IN {[recs |-> kept(n), synced |-> n] : n \in file.synced..Len(file.recs)}
         \cup UNION {{[recs |-> Append(kept(n), t), synced |-> n + 1] :
                        t \in TornRecords(file.recs[n + 1])} :
                     n \in file.synced..(Len(file.recs) - 1)}

CrashEnvs(e) ==
    {[logs |-> f, tables |-> e.tables, lock |-> FALSE] :
       f \in {g \in [DOMAIN e.logs -> UNION {CrashLogs(e.logs[n]) : n \in DOMAIN e.logs}] :
                \A n \in DOMAIN e.logs : g[n] \in CrashLogs(e.logs[n])}}

\* The process dies while the database is open and not building a table
Crash ==
    /\ db # NULL
    /\ gh.crashes < MaxCrashes
    /\ env' \in CrashEnvs(env)
    /\ db' = NULL
    /\ res' = [op |-> "crash"]
    /\ gh' = [gh EXCEPT !.crashes = @ + 1, !.opened = NULL, !.first = NULL,
                        !.closed = NULL]
    /\ UNCHANGED <<locks, skl, cache, opts, it, thr, sch>>

\* The process dies in FlushMemTable, inside or right after BuildTable
FlushCrash ==
    /\ db # NULL
    /\ db.flushing # NULL
    /\ gh.crashes < MaxCrashes
    /\ \E f \in {FlushEnd([db |-> db, env |-> env], "none")} :
         \E j \in 1..Len(f.mids) : env' \in CrashEnvs(f.mids[j])
    /\ db' = NULL
    /\ res' = [op |-> "crash"]
    /\ gh' = [gh EXCEPT !.crashes = @ + 1, !.opened = NULL, !.first = NULL,
                        !.closed = NULL]
    /\ UNCHANGED <<locks, skl, cache, opts, it, thr, sch>>

\* delete db: DBImpl::~DBImpl.  closed keeps what get returns for every key
\* right before.
Close ==
    /\ db # NULL
    /\ db.flushing = NULL
    /\ env' = CloseEnv(env)
    /\ db' = NULL
    /\ res' = [op |-> "close"]
    /\ \E gets \in {[k \in Keys |-> Get([db |-> db, env |-> env],
                                         [snapshot |-> NULL], k)]} :
         gh' = [gh EXCEPT !.first = gh.opened, !.opened = NULL, !.closed = gets]
    /\ UNCHANGED <<locks, skl, cache, opts, it, thr, sch>>

\* The events of log::Reader on the log files of directory e, in the order
\* in which RecoverLogFiles reads the files
RECURSIVE ReplayEvents(_, _, _)
ReplayEvents(e, log_numbers, i) ==
    IF i > Len(log_numbers) THEN <<>>
    ELSE ReadLog(e.logs[log_numbers[i]]) \o ReplayEvents(e, log_numbers, i + 1)

\* Whether LogReporter::Corruption is called in the replay of events
Dropped(events) ==
    \E j \in 1..Len(events) :
      events[j].kind = "corrupt" \/ events[j].n < kHeader

\* The entries of the records that the reader hands out after the first
\* call of the reporter
ReadAfterDrop(events) ==
    UNION {IF events[j].kind = "rec"
              /\ \E c \in 1..(j - 1) : events[c].kind = "corrupt"
           THEN BatchEntries(events[j].b) ELSE {} : j \in 1..Len(events)}

\* The entries of the batches of log file f that are whole in the file:
\* no physical record of the batch is damaged or cut off and the records
\* carry all its bytes
WholeEntries(f) ==
    UNION {IF /\ \A j \in 1..Len(f.recs) : f.recs[j].b = f.recs[i].b => ~f.recs[j].torn
              /\ \E j \in 1..Len(f.recs) :
                   /\ f.recs[j].b = f.recs[i].b
                   /\ f.recs[j].off + f.recs[j].length = PayloadSize(f.recs[i].b)
           THEN BatchEntries(f.recs[i].b) ELSE {} : i \in 1..Len(f.recs)}

\* The report of an open: what the log reader met in the replay, when the
\* recovery got as far as the logs, and the entries of the whole batches
Replayed(e) ==
    LET ev == IF e.lock \/ RecoverTableFiles(NewDBImpl, e).status # "ok"
              THEN <<>>
              ELSE ReplayEvents(e, SortedNumbers(DOMAIN e.logs), 1)
    IN [dropped |-> Dropped(ev), after |-> ReadAfterDrop(ev),
        whole |-> UNION {WholeEntries(e.logs[n]) : n \in DOMAIN e.logs}]

\* DB::Open(opts, dbname): DBImpl::Recover; when it fails the DBImpl is
\* deleted.  After a successful open the client gets every key.
Open ==
    /\ db = NULL
    /\ gh.opens < MaxOpens
    /\ \E r \in {Recover(env)}, rp \in {Replayed(env)} :
          IF r.status = "ok"
          THEN /\ db' = r.st.db
               /\ env' = r.st.env
               /\ \E gets \in {[k \in Keys |-> Get(r.st, [snapshot |-> NULL], k)]} :
                    /\ res' = [op |-> "open", status |-> "ok", gets |-> gets,
                               replay |-> rp]
                    /\ gh' = [gh EXCEPT
                                !.opens = @ + 1, !.opened = gets,
                                !.used = @ \cup Created(env, r.st.env),
                                !.reused = @ \/ Created(env, r.st.env) \cap gh.used # {}]
          ELSE /\ db' = NULL
               /\ env' = CloseEnv(r.st.env)
               /\ res' = [op |-> "open", status |-> r.status, replay |-> rp]
               /\ gh' = [gh EXCEPT
                           !.opens = @ + 1, !.opened = NULL, !.first = NULL,
                           !.used = @ \cup Created(env, r.st.env),
                           !.reused = @ \/ Created(env, r.st.env) \cap gh.used # {}]
    /\ UNCHANGED <<locks, skl, cache, opts, it, thr, sch>>

\* The process dies in DB::Open, after one of the file operations of the
\* recovery
OpenCrash ==
    /\ db = NULL
    /\ gh.opens < MaxOpens
    /\ gh.crashes < MaxCrashes
    /\ \E r \in {Recover(env)} :
         \E j \in 1..Len(r.mids) : env' = CloseEnv(r.mids[j])
    /\ db' = NULL
    /\ res' = [op |-> "crash"]
    /\ gh' = [gh EXCEPT !.crashes = @ + 1, !.opened = NULL, !.first = NULL,
                        !.closed = NULL]
    /\ UNCHANGED <<locks, skl, cache, opts, it, thr, sch>>

InitCrash ==
    /\ InitDB({Options(8192, p, r) : p \in BOOLEAN, r \in BOOLEAN})
    /\ it = NULL
    /\ thr = <<>>
    /\ cache = NULL
    /\ locks = NULL
    /\ skl = NULL
    /\ sch = NULL

NextCrash ==
    \/ \E k \in Keys, len \in ValueLens, sync \in BOOLEAN : Put(k, len, sync, "none")
    \/ \E k \in Keys, sync \in BOOLEAN : Delete(k, sync, "none")
    \/ \E ops \in Batches, sync \in BOOLEAN : WriteBatch(ops, sync, "none")
    \/ FlushFinish("none")
    \/ Crash
    \/ FlushCrash
    \/ Close
    \/ Open
    \/ OpenCrash

SpecCrash == InitCrash /\ [][NextCrash]_vars

-----------------------------------------------------------------------------
\* The entries of the writes with sync = true that returned OK
Acked ==
    UNION {IF gh.hist[i].sync /\ gh.hist[i].status = "ok"
           THEN BatchEntries(gh.hist[i]) ELSE {} : i \in 1..Len(gh.hist)}

\* What get returns when e is the newest entry of its key
Effect(e) ==
    IF e.type = kTypeValue THEN [status |-> "ok", value |-> e.val]
    ELSE [status |-> "not_found", value |-> 0]

\* The entries on disk and in memory: every table file, and the memtables
\* of an open database
AllEntries ==
    UNION {env.tables[n].ents : n \in DOMAIN env.tables}
      \cup (IF db # NULL THEN StoredEntries ELSE {})

\* C2: when the directory is opened after a crash (without paranoid_checks),
\* for every key with a write with sync = true that returned OK the open
\* succeeds and get returns what the last such write of the key, or a write
\* of the key made after it, put there.
C2_SyncedWriteSurvivesCrash ==
    (res.op = "open" /\ gh.crashes > 0 /\ ~opts.paranoid_checks)
      => \A k \in Keys :
           \A a \in Acked :
             (a.key = k /\ \A y \in Acked : y.key = k => y.val <= a.val)
               => /\ res.status = "ok"
                  /\ res.gets[k] \in {Effect(e) : e \in {x \in Written :
                                        x.key = k /\ x.val >= a.val}}

\* C8: when a directory is opened, closed with nothing written, and opened
\* again with the same options, the second open succeeds and get returns
\* for every key what it returned after the first open.
C8_ReopenGivesSameGets ==
    (res.op = "open" /\ gh.first # NULL)
      => res.status = "ok" /\ res.gets = gh.first

\* C8 witness: a second open after a close, of a database that was recovered
\* from a log cut off by a crash and holds a value
C8_Witness ==
    /\ res.op = "open"
    /\ gh.first # NULL
    /\ gh.crashes > 0
    /\ res.status = "ok"
    /\ \E k \in Keys : res.gets[k].status = "ok"

\* C9: at every moment, also after a crash and a recovery that succeeded or
\* failed, the entries of a written batch that are in a table or a memtable
\* are all of the batch's entries or none of them.
C9_BatchAtomicAcrossCrash ==
    \A i \in 1..Len(gh.hist) :
      LET present == BatchEntries(gh.hist[i]) \cap AllEntries
      IN present = {} \/ present = BatchEntries(gh.hist[i])

\* C9 witness: the database was opened after a crash that cut off the log
\* record of a batch of two entries, written after another write; the first
\* write is there and the batch is not
C9_Witness ==
    /\ res.op = "open"
    /\ res.status = "ok"
    /\ gh.crashes > 0
    /\ Len(gh.hist) = 2
    /\ Len(gh.hist[2].ops) = 2
    /\ BatchEntries(gh.hist[1]) \subseteq AllEntries
    /\ BatchEntries(gh.hist[2]) \cap AllEntries = {}
    /\ \E n \in DOMAIN env.logs :
         \E j \in 1..Len(env.logs[n].recs) :
           env.logs[n].recs[j].torn /\ env.logs[n].recs[j].b.seq = gh.hist[2].seq

-----------------------------------------------------------------------------
(* A client that keeps an iterator while it writes.  it is the iterator:   *)
(* the sequence and children NewIterator gave it, the DBIter position dbi, *)
(* the pairs it yielded, empty whether no sequence was assigned yet at its  *)
(* creation, expected what a scan at its creation yields, and freed the    *)
(* memtables deleted since.                                                *)

\* What a read of freed memory finds: the entries that were there, or
\* nothing that parses as an entry (the read is undefined behaviour)
FreedReads ==
    {g \in [DOMAIN it.freed -> {{}} \cup {it.freed[r] : r \in DOMAIN it.freed}] :
       \A r \in DOMAIN it.freed : g[r] \in {{}, it.freed[r]}}

\* DB::NewIterator(ReadOptions())
IterNew ==
    /\ db # NULL
    /\ db.flushing = NULL
    /\ it = NULL
    /\ \E i \in {NewIterator([db |-> db, env |-> env])} :
         it' = [sequence_ |-> i.sequence_, children |-> i.children,
                 phase |-> "new", dbi |-> NULL, pairs |-> <<>>,
                 empty |-> db.sequence_ = 0,
                 expected |-> ExpectedScan(StoredEntries, 1, i.sequence_),
                 freed |-> EmptyFn]
    /\ res' = [op |-> "new_iterator"]
    /\ UNCHANGED <<locks, skl, cache, opts, db, env, gh, thr, sch>>

\* Iterator::SeekToFirst, then key() and value() when Valid()
IterSeekToFirst ==
    /\ db # NULL
    /\ db.flushing = NULL
    /\ it # NULL
    /\ it.phase = "new"
    /\ \E g \in FreedReads :
         \E d \in {DBIterSeekToFirst(
                       ChildrenEntries([db |-> db, env |-> env], it.children, g),
                       it.sequence_)} :
           it' = [it EXCEPT !.phase = IF d.valid_ THEN "valid" ELSE "end",
                             !.dbi = d,
                             !.pairs = IF d.valid_ THEN <<DBIterPair(d)>> ELSE <<>>]
    /\ res' = [op |-> "seek_to_first"]
    /\ UNCHANGED <<locks, skl, cache, opts, db, env, gh, thr, sch>>

\* Iterator::Next, then key() and value() when Valid()
IterNext ==
    /\ db # NULL
    /\ db.flushing = NULL
    /\ it # NULL
    /\ it.phase = "valid"
    /\ \E g \in FreedReads :
         \E d \in {DBIterNext(it.dbi,
                             ChildrenEntries([db |-> db, env |-> env], it.children, g),
                             it.sequence_)} :
           it' = [it EXCEPT !.phase = IF d.valid_ THEN "valid" ELSE "end",
                             !.dbi = d,
                             !.pairs = IF d.valid_ THEN Append(@, DBIterPair(d))
                                       ELSE @]
    /\ res' = [op |-> "next"]
    /\ UNCHANGED <<locks, skl, cache, opts, db, env, gh, thr, sch>>

InitIter ==
    /\ InitDB({Options(w, FALSE, FALSE) : w \in WriteBufferSizes})
    /\ it = NULL
    /\ thr = <<>>
    /\ cache = NULL
    /\ locks = NULL
    /\ skl = NULL
    /\ sch = NULL

NextIter ==
    \/ \E k \in Keys, len \in ValueLens : Put(k, len, FALSE, "none")
    \/ \E k \in Keys : Delete(k, FALSE, "none")
    \/ FlushFinish("none")
    \/ IterNew
    \/ IterSeekToFirst
    \/ IterNext

SpecIter == InitIter /\ [][NextIter]_vars

\* C7: what an iterator created when the last assigned sequence was s has
\* yielded is at every moment the beginning, and at its end the whole, of
\* what a scan at sequence s yielded at its creation, whatever was written
\* and flushed since.
C7_IteratorKeepsItsView ==
    (it # NULL /\ ~it.empty)
      => /\ Len(it.pairs) <= Len(it.expected)
         /\ it.pairs = SubSeq(it.expected, 1, Len(it.pairs))
         /\ it.phase = "end" => it.pairs = it.expected

-----------------------------------------------------------------------------
(* util/scheduler.cpp: ThreadPoolScheduler.  sch holds priority_queue_     *)
(* (the tasks [id, priority]), the count of priority_waiter_,              *)
(* pending_list_, for every WorkThread its queue_, the count of its        *)
(* semaphore_, return_to_pending_ and the position pc of its thread in     *)
(* Consume, the position of the priority thread in PriorityLoop, the       *)
(* number of Submit calls that pushed their task and have not released the *)
(* semaphore yet, the number of jobs submitted, how often each job ran,    *)
(* and whether a TryDispatch found no idle worker.  For the delayed jobs   *)
(* it holds lazy_queue_ (the tasks [id, deadline]), the count of           *)
(* lazy_waiter_, the position of the lazy thread in LazyLoop and the       *)
(* reading now of the steady clock; for the shutdown exit_flag_ and the    *)
(* position main of the thread that destroys the scheduler.  A job is      *)
(* named by its number j > 0; -j names the std::function that job j was    *)
(* moved from, when the move left it empty.                                *)

Workers == 1..NumWorkers
\* The priorities jobs are submitted with
Priorities == {0, 1}

\* AsyncOp<T>::State of an operation nobody awaits, with the position of the
\* awaiting coroutine: value 0 is an empty std::optional
NoOp ==
    [work |-> 0, value |-> 0, exception |-> FALSE, worked |-> FALSE,
     closure_on |-> 0, resumes |-> 0, resumed_on |-> 0, received |-> NULL]

\* ThreadPoolScheduler::ThreadPoolScheduler: every worker is in
\* pending_list_ and its thread started
NewScheduler ==
    [priority_queue_ |-> {}, priority_waiter_ |-> 0,
     pending_list_ |-> [i \in 1..NumWorkers |-> i],
     w |-> [t \in Workers |-> [pc |-> "acquire", queue_ |-> <<>>, semaphore_ |-> 0,
                               return_to_pending_ |-> FALSE, job |-> 0,
                               pushing |-> 0]],
     loop |-> [pc |-> "acquire", t |-> 0, task |-> NULL],
     submitting |-> 0, jobs |-> 0, ran |-> [j \in 1..MaxJobs |-> 0],
     missed |-> FALSE,
     lazy_queue_ |-> {}, lazy_waiter_ |-> 0,
     lazy |-> [pc |-> "acquire", t |-> 0, task |-> NULL, job |-> 0],
     lazy_submitting |-> 0, now |-> 0,
     exit_flag_ |-> FALSE, main |-> "run", next_wake |-> 1,
     deadline |-> [j \in 1..MaxJobs |-> -1],
     ctx |-> [j \in 1..MaxJobs |-> 0],
     ran_on |-> [j \in 1..MaxJobs |-> 0],
     early |-> {}, late |-> {}, terminated |-> FALSE,
     aop |-> [j \in 1..MaxJobs |-> NoOp]]

\* std::terminate: Consume is noexcept, so an exception that leaves job()
\* ends the process and with it every thread
Terminated(s) ==
    [s EXCEPT !.terminated = TRUE,
              !.w = [t \in Workers |-> [s.w[t] EXCEPT !.pc = "dead", !.pushing = 0]],
              !.loop.pc = "dead", !.lazy.pc = "dead", !.main = "dead",
              !.submitting = 0, !.lazy_submitting = 0]

\* Submit(job, priority), under priority_mutex_: priority_queue_.push
SubmitPush(priority) ==
    /\ sch.jobs < MaxJobs
    /\ ~sch.terminated
    /\ sch.loop.pc # "release"
    /\ sch' = [sch EXCEPT !.jobs = @ + 1,
                          !.priority_queue_ = @ \cup {[id |-> sch.jobs + 1,
                                                       priority |-> priority]},
                          !.submitting = @ + 1]
    /\ UNCHANGED <<locks, skl, cache, opts, db, env, res, gh, it, thr>>

\* Submit: priority_waiter_.release()
SubmitRelease ==
    /\ sch.submitting > 0
    /\ sch' = [sch EXCEPT !.submitting = @ - 1, !.priority_waiter_ = @ + 1]
    /\ UNCHANGED <<locks, skl, cache, opts, db, env, res, gh, it, thr>>

\* A queue whose top() is any of its tasks
TopAny(q) == q

\* priority_queue_.top(): a task of the greatest priority
Top(q) == {x \in q : \A y \in q : y.priority <= x.priority}

\* A PriorityLoop that pops the task whether or not it was dispatched
PopAlways(q, task, dispatched) == q \ {task}

\* PriorityLoop: priority_queue_.pop() after TryDispatch returned dispatched
PopAfterDispatch(q, task, dispatched) == IF dispatched THEN q \ {task} ELSE q

\* PriorityLoop: priority_waiter_.acquire(); if (exit_flag_) break
LoopAcquire ==
    /\ sch.loop.pc = "acquire"
    /\ sch.priority_waiter_ > 0
    /\ sch' = [sch EXCEPT !.priority_waiter_ = @ - 1,
                          !.loop.pc = IF sch.exit_flag_ THEN "done" ELSE "lock"]
    /\ UNCHANGED <<locks, skl, cache, opts, db, env, res, gh, it, thr>>

\* PriorityLoop under priority_mutex_: the test of empty(), and TryDispatch
\* up to the end of PushDispatched's critical section
LoopDispatch ==
    /\ sch.loop.pc = "lock"
    /\ IF sch.priority_queue_ = {}
       THEN sch' = [sch EXCEPT !.loop.pc = "acquire"]
       ELSE \E task \in Top(sch.priority_queue_) :
              IF sch.pending_list_ = <<>>
              THEN sch' = [sch EXCEPT
                             !.loop.pc = "acquire",
                             !.priority_queue_ = PopAfterDispatch(@, task, FALSE),
                             !.missed = TRUE]
              ELSE LET t == sch.pending_list_[Len(sch.pending_list_)]
                   IN sch' = [sch EXCEPT
                                !.pending_list_ = SubSeq(@, 1, Len(@) - 1),
                                !.w[t].queue_ = Append(@, task.id),
                                !.w[t].return_to_pending_ = TRUE,
                                !.loop = [pc |-> "release", t |-> t, task |-> task]]
    /\ UNCHANGED <<locks, skl, cache, opts, db, env, res, gh, it, thr>>

\* PushDispatched: semaphore_.release(); then PriorityLoop pops the task and
\* leaves priority_mutex_
LoopRelease ==
    /\ sch.loop.pc = "release"
    /\ sch' = [sch EXCEPT
                 !.w[sch.loop.t].semaphore_ = @ + 1,
                 !.priority_queue_ = PopAfterDispatch(@, sch.loop.task, TRUE),
                 !.loop = [pc |-> "acquire", t |-> 0, task |-> NULL]]
    /\ UNCHANGED <<locks, skl, cache, opts, db, env, res, gh, it, thr>>

\* WorkThread::Consume: semaphore_.acquire(); if (IsExitRequested()) break
ConsumeAcquire(t) ==
    /\ sch.w[t].pc = "acquire"
    /\ sch.w[t].semaphore_ > 0
    /\ sch' = [sch EXCEPT !.w[t].semaphore_ = @ - 1,
                          !.w[t].pc = IF sch.exit_flag_ THEN "done" ELSE "take"]
    /\ UNCHANGED <<locks, skl, cache, opts, db, env, res, gh, it, thr>>

\* Consume under mutex_: continue when queue_ is empty, else take the front.
\* late records the jobs taken from the queue after exit_flag_ was set.
ConsumeTake(t) ==
    /\ sch.w[t].pc = "take"
    /\ IF sch.w[t].queue_ = <<>>
       THEN sch' = [sch EXCEPT !.w[t].pc = "acquire"]
       ELSE sch' = [sch EXCEPT !.w[t].job = Head(sch.w[t].queue_),
                               !.w[t].queue_ = Tail(@),
                               !.w[t].pc = "run",
                               !.late = IF sch.exit_flag_
                                        THEN @ \cup {Head(sch.w[t].queue_)}
                                        ELSE @]
    /\ UNCHANGED <<locks, skl, cache, opts, db, env, res, gh, it, thr>>

\* Consume: job().  Calling an empty std::function throws
\* std::bad_function_call.  ran_on records the worker a job with a context
\* ran on, early the jobs started before their deadline.
ConsumeRun(t) ==
    /\ sch.w[t].pc = "run"
    /\ IF sch.w[t].job < 0
       THEN sch' = Terminated(sch)
       ELSE sch' = [sch EXCEPT !.ran[sch.w[t].job] = @ + 1,
                               !.ran_on[sch.w[t].job] =
                                   IF sch.ctx[sch.w[t].job] # 0 THEN t ELSE @,
                               !.early = IF sch.now < sch.deadline[sch.w[t].job]
                                         THEN @ \cup {sch.w[t].job} ELSE @,
                               !.w[t].job = 0,
                               !.w[t].pc = "after"]
    /\ UNCHANGED <<locks, skl, cache, opts, db, env, res, gh, it, thr>>

\* A Consume that leaves return_to_pending_ set
ConsumeAfterKeep(t) ==
    /\ sch.w[t].pc = "after"
    /\ sch' = [sch EXCEPT !.w[t].pc = IF sch.w[t].return_to_pending_
                                      THEN "push" ELSE "acquire"]
    /\ UNCHANGED <<locks, skl, cache, opts, db, env, res, gh, it, thr>>

\* Consume: if (return_to_pending_) return_to_pending_ = false
ConsumeAfter(t) ==
    /\ sch.w[t].pc = "after"
    /\ sch' = [sch EXCEPT !.w[t].return_to_pending_ = FALSE,
                          !.w[t].pc = IF sch.w[t].return_to_pending_
                                      THEN "push" ELSE "acquire"]
    /\ UNCHANGED <<locks, skl, cache, opts, db, env, res, gh, it, thr>>

\* Consume under pending_mutex_: pending_list_.push_back(this)
ConsumePush(t) ==
    /\ sch.w[t].pc = "push"
    /\ sch' = [sch EXCEPT !.pending_list_ = Append(@, t), !.w[t].pc = "notify"]
    /\ UNCHANGED <<locks, skl, cache, opts, db, env, res, gh, it, thr>>

\* Consume: scheduler.priority_waiter_.release()
ConsumeNotify(t) ==
    /\ sch.w[t].pc = "notify"
    /\ sch' = [sch EXCEPT !.priority_waiter_ = @ + 1, !.w[t].pc = "acquire"]
    /\ UNCHANGED <<locks, skl, cache, opts, db, env, res, gh, it, thr>>

InitSched ==
    /\ sch = NewScheduler
    /\ opts = NULL
    /\ db = NULL
    /\ env = NULL
    /\ res = NULL
    /\ gh = NULL
    /\ it = NULL
    /\ thr = <<>>
    /\ cache = NULL
    /\ locks = NULL
    /\ skl = NULL

NextSched ==
    \/ \E p \in Priorities : SubmitPush(p)
    \/ SubmitRelease
    \/ LoopAcquire
    \/ LoopDispatch
    \/ LoopRelease
    \/ \E t \in Workers : ConsumeAcquire(t)
    \/ \E t \in Workers : ConsumeTake(t)
    \/ \E t \in Workers : ConsumeRun(t)
    \/ \E t \in Workers : ConsumeAfter(t)
    \/ \E t \in Workers : ConsumePush(t)
    \/ \E t \in Workers : ConsumeNotify(t)

SpecSched == InitSched /\ [][NextSched]_vars

\* No thread of the scheduler can take a step and no Submit is under way
SchedulerIdle ==
    /\ sch.submitting = 0
    /\ sch.loop.pc = "acquire"
    /\ sch.priority_waiter_ = 0
    /\ \A t \in Workers : sch.w[t].pc = "acquire" /\ sch.w[t].semaphore_ = 0

\* Every thread of the process keeps running: a step a thread can take is
\* taken (the threads are fairly scheduled by the operating system)
FairSched ==
    /\ WF_vars(SubmitRelease)
    /\ WF_vars(LoopAcquire)
    /\ WF_vars(LoopDispatch)
    /\ WF_vars(LoopRelease)
    /\ \A t \in Workers :
         /\ WF_vars(ConsumeAcquire(t))
         /\ WF_vars(ConsumeTake(t))
         /\ WF_vars(ConsumeRun(t))
         /\ WF_vars(ConsumeAfter(t))
         /\ WF_vars(ConsumePush(t))
         /\ WF_vars(ConsumeNotify(t))

SpecSchedFair == InitSched /\ [][NextSched]_vars /\ FairSched

\* No job passed to Submit has run twice, and when the scheduler has come to
\* rest every job passed to Submit has run once
JobsRunAtMostOnce ==
    \A j \in 1..sch.jobs :
      /\ sch.ran[j] <= 1
      /\ SchedulerIdle => sch.ran[j] = 1

\* C10: every job passed to Submit is executed exactly once: it never runs
\* twice, the scheduler never comes to rest with a job not run, and a job
\* that was submitted is run at some later moment.
C10_EveryJobRunsOnce ==
    /\ []JobsRunAtMostOnce
    /\ \A j \in 1..MaxJobs : (sch.jobs >= j) ~> (sch.ran[j] = 1)

\* C10 witness: MaxJobs jobs, more than there are workers, were submitted,
\* a dispatch found no idle worker, and the scheduler is at rest with every
\* job run once
C10_Witness ==
    /\ sch.jobs = MaxJobs
    /\ MaxJobs > NumWorkers
    /\ sch.missed
    /\ SchedulerIdle
    /\ \A j \in 1..MaxJobs : sch.ran[j] = 1
    /\ \E x \in 1..MaxJobs : sch.ran[x] = 1

-----------------------------------------------------------------------------
(* Several threads in DBImpl::Write at once, as when PutAsync calls run on *)
(* different workers of the scheduler.  DBImpl takes no lock, so the read  *)
(* of sequence_ in SetSequence, the load and the store of                  *)
(* "sequence_ += count" and the rest of Write are steps of their own.      *)
(* thr[t] is the position of thread t in Write with its batch and the      *)
(* value of sequence_ it loaded.                                           *)

Threads == 1..NumThreads

IdleThread == [pc |-> "idle", b |-> NULL, load |-> 0, sync |-> FALSE]

\* Write: the tests of count and log_, then SetSequence(&batch, sequence_)
WriteSetSequence(t, ops0, sync) ==
    /\ thr[t].pc = "idle"
    /\ gh.n < MaxWrites
    /\ db.flushing = NULL
    /\ Len(ops0) # 0
    /\ db.log_ # NULL
    /\ LET ops == [i \in 1..Len(ops0) |-> [ops0[i] EXCEPT !.val = gh.nid + i]]
       IN /\ thr' = [thr EXCEPT ![t] = [pc |-> "load", sync |-> sync, load |-> 0,
                                        b |-> [seq |-> db.sequence_,
                                               count |-> Len(ops), ops |-> ops]]]
          /\ gh' = [gh EXCEPT !.n = @ + 1, !.nid = @ + Len(ops)]
    /\ UNCHANGED <<locks, skl, cache, opts, db, env, res, it, sch>>

\* Write: "sequence_ += count", the load of sequence_
WriteLoadSequence(t) ==
    /\ thr[t].pc = "load"
    /\ thr' = [thr EXCEPT ![t].pc = "store", ![t].load = db.sequence_]
    /\ UNCHANGED <<locks, skl, cache, opts, db, env, res, gh, it, sch>>

\* Write: "sequence_ += count", the store to sequence_
WriteStoreSequence(t) ==
    /\ thr[t].pc = "store"
    /\ db' = [db EXCEPT !.sequence_ = thr[t].load + thr[t].b.count]
    /\ thr' = [thr EXCEPT ![t].pc = "append"]
    /\ UNCHANGED <<locks, skl, cache, opts, env, res, gh, it, sch>>

\* Write: the rest of the call
WriteRest(t) ==
    /\ thr[t].pc = "append"
    /\ db.flushing = NULL
    /\ \E w \in {WriteAppend([db |-> db, env |-> env], thr[t].b, thr[t].sync,
                              "none")} :
       \E status \in {IF w.flush = "begun" THEN "pending" ELSE w.status} :
          /\ db' = w.st.db
          /\ env' = w.st.env
          /\ res' = [op |-> "write", status |-> status, applied |-> w.applied,
                     flush |-> w.flush]
          /\ gh' = [gh EXCEPT !.hist = Append(@, [seq |-> thr[t].b.seq,
                                                  ops |-> thr[t].b.ops,
                                                  sync |-> thr[t].sync,
                                                  status |-> status])]
    /\ thr' = [thr EXCEPT ![t] = IdleThread]
    /\ UNCHANGED <<locks, skl, cache, opts, it, sch>>

InitConc ==
    /\ InitDB({Options(w, FALSE, FALSE) : w \in WriteBufferSizes})
    /\ it = NULL
    /\ thr = [t \in Threads |-> IdleThread]
    /\ cache = NULL
    /\ locks = NULL
    /\ skl = NULL
    /\ sch = NULL

NextConc ==
    \/ \E t \in Threads, k \in Keys :
         WriteSetSequence(t, <<PutOp(k, SmallLen)>>, FALSE)
    \/ \E t \in Threads, k \in Keys : WriteSetSequence(t, <<DeleteOp(k)>>, FALSE)
    \/ \E t \in Threads, ops \in Batches : WriteSetSequence(t, ops, FALSE)
    \/ \E t \in Threads : WriteLoadSequence(t)
    \/ \E t \in Threads : WriteStoreSequence(t)
    \/ \E t \in Threads : WriteRest(t)
    \/ \E f \in FlushFaults : FlushFinish(f)

SpecConc == InitConc /\ [][NextConc]_vars

\* The sequence numbers [seq, seq + count) of a batch
SequenceRange(b) == b.seq .. (b.seq + Len(b.ops) - 1)

\* C3: the batches written by concurrent calls have pairwise disjoint
\* sequence ranges, and no two entries of the database carry the same
\* sequence number.
C3_ConcurrentBatchesDisjoint ==
    /\ \A i, j \in 1..Len(gh.hist) :
         i # j => SequenceRange(gh.hist[i]) \cap SequenceRange(gh.hist[j]) = {}
    /\ \A x, y \in StoredEntries : x # y => x.seq # y.seq

-----------------------------------------------------------------------------
(* util/scheduler.cpp: delayed jobs.  SubmitAfter puts a LazyTask in       *)
(* lazy_queue_, LazyLoop hands a task that is due to an idle worker, or to *)
(* Submit when there is none.  now is the steady clock, which Tick moves.  *)

\* The readings of the clock, and the deadlines SubmitAfter is called with
Times == 0..MaxTime

\* steady_clock advances
Tick ==
    /\ sch.now < MaxTime
    /\ ~sch.terminated
    /\ sch' = [sch EXCEPT !.now = @ + 1]
    /\ UNCHANGED <<locks, skl, cache, opts, db, env, res, gh, it, thr>>

\* SubmitAfter(deadline, job), under lazy_mutex_: lazy_queue_.push
SubmitAfterPush(deadline) ==
    /\ sch.jobs < MaxJobs
    /\ ~sch.terminated
    /\ sch' = [sch EXCEPT !.jobs = @ + 1,
                          !.deadline[sch.jobs + 1] = deadline,
                          !.lazy_queue_ = @ \cup {[id |-> sch.jobs + 1,
                                                   deadline |-> deadline]},
                          !.lazy_submitting = @ + 1]
    /\ UNCHANGED <<locks, skl, cache, opts, db, env, res, gh, it, thr>>

\* SubmitAfter: lazy_waiter_.release()
SubmitAfterRelease ==
    /\ sch.lazy_submitting > 0
    /\ sch' = [sch EXCEPT !.lazy_submitting = @ - 1, !.lazy_waiter_ = @ + 1]
    /\ UNCHANGED <<locks, skl, cache, opts, db, env, res, gh, it, thr>>

\* lazy_queue_.top() with LazyTask::operator<: a task of the earliest deadline
LazyTop(q) == {x \in q : \A y \in q : x.deadline <= y.deadline}

\* A LazyLoop that takes every task for due
DueAlways(task, now) == TRUE

\* LazyLoop: task.deadline <= now
Due(task, now) == task.deadline <= now

\* The std::function a job was moved from is in a valid but unspecified
\* state: it still holds the job, or it is empty
MovedFrom(job) == {job, -job}

\* LazyLoop: lazy_waiter_.acquire(); if (exit_flag_) break
LazyAcquire ==
    /\ sch.lazy.pc = "acquire"
    /\ sch.lazy_waiter_ > 0
    /\ sch' = [sch EXCEPT !.lazy_waiter_ = @ - 1,
                          !.lazy.pc = IF sch.exit_flag_ THEN "done" ELSE "lock"]
    /\ UNCHANGED <<locks, skl, cache, opts, db, env, res, gh, it, thr>>

\* LazyLoop under lazy_mutex_: continue when lazy_queue_ is empty; a top task
\* that is due is popped, with a release of lazy_waiter_ when tasks remain; a
\* top task that is not due gives the deadline to wait for
LazyLock ==
    /\ sch.lazy.pc = "lock"
    /\ IF sch.lazy_queue_ = {}
       THEN sch' = [sch EXCEPT !.lazy.pc = "acquire"]
       ELSE \E task \in LazyTop(sch.lazy_queue_) :
              IF Due(task, sch.now)
              THEN sch' = [sch EXCEPT
                             !.lazy_queue_ = @ \ {task},
                             !.lazy_waiter_ = IF sch.lazy_queue_ \ {task} # {}
                                              THEN @ + 1 ELSE @,
                             !.lazy = [pc |-> "dispatch", t |-> 0, task |-> task,
                                       job |-> task.id]]
              ELSE sch' = [sch EXCEPT
                             !.lazy = [pc |-> "wait", t |-> 0, task |-> task,
                                       job |-> 0]]
    /\ UNCHANGED <<locks, skl, cache, opts, db, env, res, gh, it, thr>>

\* LazyLoop: TryDispatch(std::move(task.job)), whose parameter is constructed
\* from task.job.  With an idle worker, up to the end of PushDispatched's
\* critical section; without, TryDispatch returns false and task.job is what
\* the move left.
LazyDispatch ==
    /\ sch.lazy.pc = "dispatch"
    /\ IF sch.pending_list_ = <<>>
       THEN \E left \in MovedFrom(sch.lazy.job) :
              sch' = [sch EXCEPT !.lazy.pc = "fallback", !.lazy.job = left,
                                 !.missed = TRUE]
       ELSE LET t == sch.pending_list_[Len(sch.pending_list_)]
            IN sch' = [sch EXCEPT
                         !.pending_list_ = SubSeq(@, 1, Len(@) - 1),
                         !.w[t].queue_ = Append(@, sch.lazy.job),
                         !.w[t].return_to_pending_ = TRUE,
                         !.lazy.pc = "release", !.lazy.t = t]
    /\ UNCHANGED <<locks, skl, cache, opts, db, env, res, gh, it, thr>>

\* PushDispatched: semaphore_.release()
LazyRelease ==
    /\ sch.lazy.pc = "release"
    /\ sch' = [sch EXCEPT
                 !.w[sch.lazy.t].semaphore_ = @ + 1,
                 !.lazy = [pc |-> "acquire", t |-> 0, task |-> NULL, job |-> 0]]
    /\ UNCHANGED <<locks, skl, cache, opts, db, env, res, gh, it, thr>>

\* LazyLoop: Submit(std::move(task.job), kLazyFallbackPriority), under
\* priority_mutex_: priority_queue_.push
LazyFallback ==
    /\ sch.lazy.pc = "fallback"
    /\ sch.loop.pc # "release"
    /\ sch' = [sch EXCEPT
                 !.priority_queue_ = @ \cup {[id |-> sch.lazy.job,
                                              priority |-> kLazyFallbackPriority]},
                 !.lazy.pc = "notify"]
    /\ UNCHANGED <<locks, skl, cache, opts, db, env, res, gh, it, thr>>

\* Submit: priority_waiter_.release()
LazyNotify ==
    /\ sch.lazy.pc = "notify"
    /\ sch' = [sch EXCEPT
                 !.priority_waiter_ = @ + 1,
                 !.lazy = [pc |-> "acquire", t |-> 0, task |-> NULL, job |-> 0]]
    /\ UNCHANGED <<locks, skl, cache, opts, db, env, res, gh, it, thr>>

\* LazyLoop: lazy_waiter_.try_acquire_until(deadline) returns with a permit,
\* or without one when the deadline has come
LazyWait ==
    /\ sch.lazy.pc = "wait"
    /\ \/ /\ sch.lazy_waiter_ > 0
          /\ sch' = [sch EXCEPT !.lazy_waiter_ = @ - 1, !.lazy.pc = "rerelease"]
       \/ /\ sch.lazy_waiter_ = 0
          /\ sch.lazy.task.deadline <= sch.now
          /\ sch' = [sch EXCEPT !.lazy.pc = "rerelease"]
    /\ UNCHANGED <<locks, skl, cache, opts, db, env, res, gh, it, thr>>

\* LazyLoop: lazy_waiter_.release() after the wait
LazyRerelease ==
    /\ sch.lazy.pc = "rerelease"
    /\ sch' = [sch EXCEPT
                 !.lazy_waiter_ = @ + 1,
                 !.lazy = [pc |-> "acquire", t |-> 0, task |-> NULL, job |-> 0]]
    /\ UNCHANGED <<locks, skl, cache, opts, db, env, res, gh, it, thr>>

NextLazy ==
    \/ \E d \in Times : SubmitAfterPush(d)
    \/ SubmitAfterRelease
    \/ Tick
    \/ LazyAcquire
    \/ LazyLock
    \/ LazyDispatch
    \/ LazyRelease
    \/ LazyFallback
    \/ LazyNotify
    \/ LazyWait
    \/ LazyRerelease
    \/ LoopAcquire
    \/ LoopDispatch
    \/ LoopRelease
    \/ \E t \in Workers : ConsumeAcquire(t)
    \/ \E t \in Workers : ConsumeTake(t)
    \/ \E t \in Workers : ConsumeRun(t)
    \/ \E t \in Workers : ConsumeAfter(t)
    \/ \E t \in Workers : ConsumePush(t)
    \/ \E t \in Workers : ConsumeNotify(t)

\* The lazy thread keeps running, and so does a thread inside SubmitAfter
FairLazy ==
    /\ WF_vars(SubmitAfterRelease)
    /\ WF_vars(LazyAcquire)
    /\ WF_vars(LazyLock)
    /\ WF_vars(LazyDispatch)
    /\ WF_vars(LazyRelease)
    /\ WF_vars(LazyFallback)
    /\ WF_vars(LazyNotify)
    /\ WF_vars(LazyWait)
    /\ WF_vars(LazyRerelease)

\* The clock keeps advancing
SpecLazy == InitSched /\ [][NextLazy]_vars /\ FairSched /\ FairLazy /\ WF_vars(Tick)

\* The jobs passed to SubmitAfter
DelayedJobs == {j \in 1..sch.jobs : sch.deadline[j] >= 0}

\* No thread of the scheduler can take a step, no call is under way and the
\* clock has passed every deadline
LazyIdle ==
    /\ SchedulerIdle
    /\ sch.lazy_submitting = 0
    /\ sch.lazy.pc = "acquire"
    /\ sch.lazy_waiter_ = 0
    /\ sch.now = MaxTime

\* C11: every job passed to SubmitAfter is executed exactly once: the process
\* is not ended by std::terminate, no delayed job runs twice, and when the
\* scheduler has come to rest after the last deadline every delayed job has
\* run once, also when no worker was idle at the moment the job was due.
C11_DelayedJobRunsOnce ==
    /\ ~sch.terminated
    /\ \A j \in DelayedJobs :
         /\ sch.ran[j] <= 1
         /\ LazyIdle => sch.ran[j] = 1

\* C12: a job passed to SubmitAfter that has run was started at a reading of
\* the clock not before its deadline, whatever other delayed jobs there are.
C12_NotBeforeDeadline ==
    \A j \in DelayedJobs : sch.ran[j] > 0 => j \notin sch.early

\* C12 witness: of two delayed jobs the one with the later deadline was
\* submitted first; the other has run and the first still waits in
\* lazy_queue_ for its deadline, which LazyLoop found not to be due
C12_Witness ==
    /\ sch.jobs >= 2
    /\ sch.deadline[1] = MaxTime
    /\ sch.deadline[2] = 1
    /\ sch.ran[2] = 1
    /\ sch.now < MaxTime
    /\ sch.lazy.pc = "wait"
    /\ [id |-> 1, deadline |-> MaxTime] \in sch.lazy_queue_

-----------------------------------------------------------------------------
(* util/scheduler.cpp: SubmitIn.  A Context names the thread it was        *)
(* captured on; a context of worker t is written t, a context captured on  *)
(* a thread that is no worker is written 0.                                *)

Contexts == Workers \cup {0}

\* A SubmitIn that takes the first worker whatever the context
FindFirstWorker(thread_id) == 1

\* SubmitIn: the worker t with t.Id() == ctx.thread_id_, 0 when the loop over
\* thread_list_ finds none
FindWorker(thread_id) == IF thread_id \in Workers THEN thread_id ELSE 0

\* SubmitIn(ctx, job): WorkThread::Push on the worker of the context, under
\* its mutex_: queue_.push; without such a worker Submit(job), under
\* priority_mutex_: priority_queue_.push
SubmitInPush(ctx) ==
    /\ sch.jobs < MaxJobs
    /\ ~sch.terminated
    /\ \E t \in {FindWorker(ctx)} :
         IF t # 0
         THEN sch' = [sch EXCEPT !.jobs = @ + 1,
                                 !.ctx[sch.jobs + 1] = ctx,
                                 !.w[t].queue_ = Append(@, sch.jobs + 1),
                                 !.w[t].pushing = @ + 1]
         ELSE /\ sch.loop.pc # "release"
              /\ sch' = [sch EXCEPT !.jobs = @ + 1,
                                    !.priority_queue_ = @ \cup {[id |-> sch.jobs + 1,
                                                                 priority |-> 0]},
                                    !.submitting = @ + 1]
    /\ UNCHANGED <<locks, skl, cache, opts, db, env, res, gh, it, thr>>

\* WorkThread::Push: semaphore_.release()
SubmitInRelease(t) ==
    /\ sch.w[t].pushing > 0
    /\ sch' = [sch EXCEPT !.w[t].pushing = @ - 1, !.w[t].semaphore_ = @ + 1]
    /\ UNCHANGED <<locks, skl, cache, opts, db, env, res, gh, it, thr>>

NextAffinity ==
    \/ SubmitPush(0)
    \/ SubmitRelease
    \/ \E c \in Contexts : SubmitInPush(c)
    \/ \E t \in Workers : SubmitInRelease(t)
    \/ LoopAcquire
    \/ LoopDispatch
    \/ LoopRelease
    \/ \E t \in Workers : ConsumeAcquire(t)
    \/ \E t \in Workers : ConsumeTake(t)
    \/ \E t \in Workers : ConsumeRun(t)
    \/ \E t \in Workers : ConsumeAfter(t)
    \/ \E t \in Workers : ConsumePush(t)
    \/ \E t \in Workers : ConsumeNotify(t)

SpecAffinity ==
    /\ InitSched
    /\ [][NextAffinity]_vars
    /\ FairSched
    /\ \A t \in Workers : WF_vars(SubmitInRelease(t))

\* The jobs passed to SubmitIn with the context of a worker
AffinityJobs == {j \in 1..sch.jobs : sch.ctx[j] # 0}

\* No thread of the scheduler can take a step and no call is under way
AffinityIdle == SchedulerIdle /\ \A t \in Workers : sch.w[t].pushing = 0

\* No job passed to SubmitIn with a worker's context has run twice or on
\* another worker, and at rest each has run
AffinityOnce ==
    \A j \in AffinityJobs :
      /\ sch.ran[j] <= 1
      /\ sch.ran[j] = 1 => sch.ran_on[j] = sch.ctx[j]
      /\ AffinityIdle => sch.ran[j] = 1

\* C13: a job passed to SubmitIn with a context captured on a worker thread
\* is executed exactly once, on that worker: it never runs twice, never on
\* another worker, and it is run at some later moment.
C13_SubmitInRunsOnItsWorker ==
    /\ []AffinityOnce
    /\ \A j \in 1..MaxJobs : (sch.jobs >= j /\ sch.ctx[j] # 0) ~> (sch.ran[j] = 1)

\* C13 witness: between two jobs passed to Submit a job was passed to
\* SubmitIn with the context of worker 2; all three have run, the SubmitIn
\* job on worker 2, and the scheduler is at rest with every worker idle
C13_Witness ==
    /\ sch.jobs = 3
    /\ sch.ctx = <<0, 2, 0>>
    /\ sch.ran = <<1, 1, 1>>
    /\ sch.ran_on[2] = 2
    /\ AffinityIdle
    /\ Len(sch.pending_list_) = NumWorkers

-----------------------------------------------------------------------------
(* util/scheduler.cpp: shutdown.  main is the position of the thread that  *)
(* destroys the scheduler: in ~ThreadPoolScheduler it calls Exit and joins *)
(* the priority thread, the lazy thread and the workers in this order.     *)
(* next_wake is the worker the loop over work_threads_ has come to.        *)

\* An Exit that wakes no worker
WakeNone(s) == s

\* WorkThread::Wake: semaphore_.release()
Wake(s) == s + 1

\* Exit: exit_flag_.exchange(true)
ExitFlag ==
    /\ sch.main = "run"
    /\ sch' = [sch EXCEPT !.exit_flag_ = TRUE, !.main = "exit_lazy"]
    /\ UNCHANGED <<locks, skl, cache, opts, db, env, res, gh, it, thr>>

\* Exit: lazy_waiter_.release()
ExitLazy ==
    /\ sch.main = "exit_lazy"
    /\ sch' = [sch EXCEPT !.lazy_waiter_ = @ + 1, !.main = "exit_priority"]
    /\ UNCHANGED <<locks, skl, cache, opts, db, env, res, gh, it, thr>>

\* Exit: priority_waiter_.release()
ExitPriority ==
    /\ sch.main = "exit_priority"
    /\ sch' = [sch EXCEPT !.priority_waiter_ = @ + 1, !.main = "wake",
                          !.next_wake = 1]
    /\ UNCHANGED <<locks, skl, cache, opts, db, env, res, gh, it, thr>>

\* Exit: t.Wake() for the next worker of work_threads_
ExitWake ==
    /\ sch.main = "wake"
    /\ sch' = [sch EXCEPT
                 !.w[sch.next_wake].semaphore_ = Wake(@),
                 !.next_wake = IF sch.next_wake = NumWorkers THEN 1 ELSE @ + 1,
                 !.main = IF sch.next_wake = NumWorkers THEN "join_priority" ELSE @]
    /\ UNCHANGED <<locks, skl, cache, opts, db, env, res, gh, it, thr>>

\* ~ThreadPoolScheduler: priority_thread_.join() returns when PriorityLoop
\* has returned
JoinPriority ==
    /\ sch.main = "join_priority"
    /\ sch.loop.pc = "done"
    /\ sch' = [sch EXCEPT !.main = "join_lazy"]
    /\ UNCHANGED <<locks, skl, cache, opts, db, env, res, gh, it, thr>>

\* ~ThreadPoolScheduler: lazy_thread_.join()
JoinLazy ==
    /\ sch.main = "join_lazy"
    /\ sch.lazy.pc = "done"
    /\ sch' = [sch EXCEPT !.main = "join_workers"]
    /\ UNCHANGED <<locks, skl, cache, opts, db, env, res, gh, it, thr>>

\* ~ThreadPoolScheduler: t.Join() for the next worker of work_threads_
JoinWorker ==
    /\ sch.main = "join_workers"
    /\ sch.w[sch.next_wake].pc = "done"
    /\ sch' = [sch EXCEPT
                 !.next_wake = IF sch.next_wake = NumWorkers THEN @ ELSE @ + 1,
                 !.main = IF sch.next_wake = NumWorkers THEN "destroyed" ELSE @]
    /\ UNCHANGED <<locks, skl, cache, opts, db, env, res, gh, it, thr>>

\* The deadlines of the delayed jobs at shutdown: due at once, or never
\* reached by the clock, which stands at 0
ExitDeadlines == {0, MaxTime}

\* With no more jobs than workers TryDispatch finds an idle worker for every
\* delayed job, so the steps of LazyLoop's call of Submit are not taken.
NextExit ==
    \/ sch.jobs < MaxExitJobs /\ SubmitPush(0)
    \/ SubmitRelease
    \/ \E d \in ExitDeadlines : sch.jobs < MaxExitJobs /\ SubmitAfterPush(d)
    \/ SubmitAfterRelease
    \/ LazyAcquire
    \/ LazyLock
    \/ LazyDispatch
    \/ LazyRelease
    \/ LazyWait
    \/ LazyRerelease
    \/ LoopAcquire
    \/ LoopDispatch
    \/ LoopRelease
    \/ \E t \in Workers : ConsumeAcquire(t)
    \/ \E t \in Workers : ConsumeTake(t)
    \/ \E t \in Workers : ConsumeRun(t)
    \/ \E t \in Workers : ConsumeAfter(t)
    \/ \E t \in Workers : ConsumePush(t)
    \/ \E t \in Workers : ConsumeNotify(t)
    \/ ExitFlag
    \/ ExitLazy
    \/ ExitPriority
    \/ ExitWake
    \/ JoinPriority
    \/ JoinLazy
    \/ JoinWorker

\* The destroying thread keeps running once it has entered the destructor
FairExit ==
    /\ WF_vars(ExitLazy)
    /\ WF_vars(ExitPriority)
    /\ WF_vars(ExitWake)
    /\ WF_vars(JoinPriority)
    /\ WF_vars(JoinLazy)
    /\ WF_vars(JoinWorker)

SpecExit == InitSched /\ [][NextExit]_vars /\ FairSched /\ FairLazy /\ FairExit

\* The workers ~ThreadPoolScheduler has joined
Joined ==
    IF sch.main = "destroyed" THEN Workers
    ELSE IF sch.main = "join_workers" THEN 1..(sch.next_wake - 1)
    ELSE {}

\* C14: after Exit has set exit_flag_ no job is taken from a worker's queue
\* and started (late holds the jobs that were), and a worker that has been
\* joined has returned from every job it took.
C14_QueuedJobsDroppedAtExit ==
    /\ sch.late = {}
    /\ \A t \in Joined : sch.w[t].pc = "done" /\ sch.w[t].job = 0

\* Every thread of the scheduler has left its loop
AllThreadsDone ==
    /\ sch.loop.pc = "done"
    /\ sch.lazy.pc = "done"
    /\ \A t \in Workers : sch.w[t].pc = "done" /\ sch.w[t].job = 0

\* C15: once the destructor has called Exit it comes to its end (unless
\* std::terminate ends the process first), and at its end the exit flag is
\* set and the priority thread, the lazy thread and every worker have left
\* their loops and are joined, whatever the queues hold.
C15_DestructorTerminates ==
    /\ [](sch.main = "destroyed" => sch.exit_flag_ /\ AllThreadsDone)
    /\ sch.exit_flag_ ~> (sch.main = "destroyed" \/ sch.terminated)

\* C15 witness: the scheduler is destroyed while a delayed job whose deadline
\* the clock never reaches is in lazy_queue_ and a job that was dispatched
\* is left in a worker's queue
C15_Witness ==
    /\ sch.main = "destroyed"
    /\ \E x \in sch.lazy_queue_ : x.deadline > sch.now
    /\ \E t \in Workers : sch.w[t].queue_ # <<>>

-----------------------------------------------------------------------------
(* util/scheduler.cpp: the order in which PriorityLoop dispatches.         *)

\* C16: whenever PriorityLoop has handed a task to a worker (it is between
\* PushDispatched and the pop of the task, priority_mutex_ held), no task in
\* priority_queue_ has a greater priority than the task handed over.
C16_DispatchesHighestPriority ==
    sch.loop.pc = "release" =>
      \A x \in sch.priority_queue_ : x.priority <= sch.loop.task.priority

\* C16 witness: PriorityLoop has handed over a task of priority 1 that was
\* submitted after a task of priority 0 which still waits in the queue
C16_Witness ==
    /\ sch.loop.pc = "release"
    /\ sch.loop.task.priority = 1
    /\ \E x \in sch.priority_queue_ :
         x.priority = 0 /\ x.id < sch.loop.task.id

-----------------------------------------------------------------------------
(* include/async_op.h: AsyncOp<T>.  sch.aop[j] is the State of the         *)
(* operation whose closure is job j, with what happened to the coroutine   *)
(* that awaits it.  The work of an operation returns the value work > 0,   *)
(* or throws when work is 0.                                               *)

\* The works operations are constructed with

Works == {0, 1}

\* A closure that resumes the coroutine without having run the work
ClosureSkipWork(st) == [st EXCEPT !.worked = TRUE]

\* The closure of await_suspend up to handle.resume(): st->value = st->work(),
\* or st->exception = std::current_exception() when the work throws
ClosureWork(st) ==
    IF st.work = 0
    THEN [st EXCEPT !.exception = TRUE, !.worked = TRUE]
    ELSE [st EXCEPT !.value = st.work, !.worked = TRUE]

\* Awaiter::await_resume: rethrows the exception, or returns *state->value
await_resume(st) ==
    IF st.exception THEN [throws |-> TRUE, value |-> 0]
    ELSE [throws |-> FALSE, value |-> st.value]

\* What the coroutine is to receive from an operation with this work
WorkResult(work) ==
    IF work = 0 THEN [throws |-> TRUE, value |-> 0]
    ELSE [throws |-> FALSE, value |-> work]

\* co_await on AsyncOp(scheduler, work): Awaiter::await_suspend calls
\* scheduler->Submit(closure) with the default priority 0; under
\* priority_mutex_: priority_queue_.push
await_suspend(work) ==
    /\ sch.jobs < MaxJobs
    /\ sch.loop.pc # "release"
    /\ sch' = [sch EXCEPT !.jobs = @ + 1,
                          !.aop[sch.jobs + 1] = [NoOp EXCEPT !.work = work],
                          !.priority_queue_ = @ \cup {[id |-> sch.jobs + 1,
                                                       priority |-> 0]},
                          !.submitting = @ + 1]
    /\ UNCHANGED <<locks, skl, cache, opts, db, env, res, gh, it, thr>>

\* Consume: job() enters the closure, which runs the work
ClosureRun(t) ==
    /\ sch.w[t].pc = "run"
    /\ ~sch.aop[sch.w[t].job].worked
    /\ sch' = [sch EXCEPT !.aop[sch.w[t].job] =
                              [ClosureWork(@) EXCEPT !.closure_on = t]]
    /\ UNCHANGED <<locks, skl, cache, opts, db, env, res, gh, it, thr>>

\* The closure: handle.resume(), which runs the coroutine from await_resume
\* on; then the closure returns and job() with it
ClosureResume(t) ==
    /\ sch.w[t].pc = "run"
    /\ sch.aop[sch.w[t].job].worked
    /\ sch' = [sch EXCEPT !.aop[sch.w[t].job].resumes = @ + 1,
                          !.aop[sch.w[t].job].resumed_on = t,
                          !.aop[sch.w[t].job].received =
                              await_resume(sch.aop[sch.w[t].job]),
                          !.ran[sch.w[t].job] = @ + 1,
                          !.w[t].job = 0,
                          !.w[t].pc = "after"]
    /\ UNCHANGED <<locks, skl, cache, opts, db, env, res, gh, it, thr>>

NextAsync ==
    \/ \E work \in Works : await_suspend(work)
    \/ SubmitRelease
    \/ LoopAcquire
    \/ LoopDispatch
    \/ LoopRelease
    \/ \E t \in Workers : ConsumeAcquire(t)
    \/ \E t \in Workers : ConsumeTake(t)
    \/ \E t \in Workers : ClosureRun(t)
    \/ \E t \in Workers : ClosureResume(t)
    \/ \E t \in Workers : ConsumeAfter(t)
    \/ \E t \in Workers : ConsumePush(t)
    \/ \E t \in Workers : ConsumeNotify(t)

\* Every thread keeps running, and the work of an operation returns
FairAsync ==
    /\ WF_vars(SubmitRelease)
    /\ WF_vars(LoopAcquire)
    /\ WF_vars(LoopDispatch)
    /\ WF_vars(LoopRelease)
    /\ \A t \in Workers :
         /\ WF_vars(ConsumeAcquire(t))
         /\ WF_vars(ConsumeTake(t))
         /\ WF_vars(ClosureRun(t))
         /\ WF_vars(ClosureResume(t))
         /\ WF_vars(ConsumeAfter(t))
         /\ WF_vars(ConsumePush(t))
         /\ WF_vars(ConsumeNotify(t))

SpecAsync == InitSched /\ [][NextAsync]_vars /\ FairAsync

\* The tasks and queue entries that hold the closure of operation j
ClosureCopies(j) ==
    Cardinality({x \in sch.priority_queue_ : x.id = j})
    + Cardinality({<<t, i>> \in Workers \X (1..MaxJobs) :
                     i <= Len(sch.w[t].queue_) /\ sch.w[t].queue_[i] = j})
    + Cardinality({t \in Workers : sch.w[t].job = j})

\* The closure of an awaited operation is queued with priority 0 and never
\* run twice; its coroutine is resumed at most once, only after the work was
\* run, on the worker that ran it, with the result of the work; and at rest
\* it has been resumed
AwaitedOnce ==
    \A j \in 1..sch.jobs :
      /\ \A x \in sch.priority_queue_ : x.id = j => x.priority = 0
      /\ sch.ran[j] <= 1
      /\ sch.ran[j] = 0 => ClosureCopies(j) <= 2
      /\ sch.ran[j] = 1 => ClosureCopies(j) = 0
      /\ sch.aop[j].resumes <= 1
      /\ sch.aop[j].resumes = 1 =>
           /\ sch.aop[j].worked
           /\ sch.aop[j].resumed_on = sch.aop[j].closure_on
           /\ sch.aop[j].received = WorkResult(sch.aop[j].work)
      /\ SchedulerIdle => sch.aop[j].resumes = 1

\* C17: awaiting an AsyncOp submits its closure once, with priority 0; the
\* coroutine is resumed exactly once, after the work has finished, on the
\* worker that ran it, and receives the result of the work (its value, or
\* its exception rethrown).
C17_AwaitResumesOnceOnWorker ==
    /\ []AwaitedOnce
    /\ \A j \in 1..MaxJobs : (sch.jobs >= j) ~> (sch.aop[j].resumes = 1)

\* C17 witness: MaxJobs operations were awaited, more than there are
\* workers, one whose work throws and one whose work returns 1; all
\* coroutines were resumed and the scheduler is at rest
C17_Witness ==
    /\ sch.jobs = MaxJobs
    /\ SchedulerIdle
    /\ \E j \in 1..MaxJobs : sch.aop[j].work = 0 /\ sch.aop[j].received.throws
    /\ \E j \in 1..MaxJobs : sch.aop[j].work = 1 /\ sch.aop[j].received.value = 1
    /\ \A j \in 1..MaxJobs : sch.aop[j].resumes = 1

-----------------------------------------------------------------------------
(* src/cache.cpp: LRUCache, one shard of ShardedLRUCache.  cache holds     *)
(* capacity_, usage_, the lists lru_ (oldest first) and in_use_, table_    *)
(* (for every key the entry the HandleTable finds, 0 for none), the        *)
(* LRUHandles allocated so far with their in_cache and refs, and for the   *)
(* client the number of handles it holds on every entry.  deleted counts   *)
(* the calls of an entry's deleter, wrong the entries whose deleter was    *)
(* called while they were in the cache or a handle was held; last is the   *)
(* last call made and evicted the entries the last Insert freed in its     *)
(* loop.                                                                   *)

CacheKeys == 1..MaxCacheKey
Charges == 1..MaxCharge
Capacities == 0..MaxCapacity
Entries == 1..MaxEntries

\* LRUCache::LRUCache and SetCapacity
NewLRUCache(capacity) ==
    [capacity_ |-> capacity, usage_ |-> 0, lru_ |-> <<>>, in_use_ |-> <<>>,
     table_ |-> [k \in CacheKeys |-> 0],
     e |-> [x \in Entries |-> [key |-> 0, charge |-> 0, in_cache |-> FALSE,
                               refs |-> 0, deleted |-> 0]],
     n |-> 0, held |-> [x \in Entries |-> 0], wrong |-> {}, evicted |-> {},
     destroyed |-> FALSE, last |-> "New"]

\* A list without the entry x
Unlinked(list, x) == SelectSeq(list, LAMBDA y : y # x)

\* LRU_Remove(e): e leaves the list it is on
LRU_Remove(c, x) ==
    [c EXCEPT !.lru_ = Unlinked(@, x), !.in_use_ = Unlinked(@, x)]

\* LRU_Append(&lru_, e): e becomes the newest entry of lru_
LRU_Append_lru(c, x) == [c EXCEPT !.lru_ = Append(@, x)]

\* LRU_Append(&in_use_, e)
LRU_Append_in_use(c, x) == [c EXCEPT !.in_use_ = Append(@, x)]

\* A Ref that leaves the entry on the list it is on
RefNoMove(c, x) == [c EXCEPT !.e[x].refs = @ + 1]

\* LRUCache::Ref
Ref(c, x) ==
    IF c.e[x].refs = 1 /\ c.e[x].in_cache
    THEN [LRU_Append_in_use(LRU_Remove(c, x), x) EXCEPT !.e[x].refs = @ + 1]
    ELSE [c EXCEPT !.e[x].refs = @ + 1]

\* LRUCache::Unref: at refs 0 the deleter is called and the handle freed
Unref(c, x) ==
    IF c.e[x].refs = 1
    THEN [c EXCEPT !.e[x].refs = 0,
                   !.e[x].deleted = @ + 1,
                   !.wrong = IF c.e[x].in_cache \/ c.held[x] > 0
                             THEN @ \cup {x} ELSE @]
    ELSE IF c.e[x].in_cache /\ c.e[x].refs = 2
    THEN [LRU_Append_lru(LRU_Remove(c, x), x) EXCEPT !.e[x].refs = 1]
    ELSE [c EXCEPT !.e[x].refs = @ - 1]

\* A FinishErase that keeps the cache's reference
FinishEraseNoUnref(c, x) ==
    IF x # 0
    THEN [LRU_Remove(c, x) EXCEPT !.e[x].in_cache = FALSE,
                                  !.usage_ = @ - c.e[x].charge]
    ELSE c

\* LRUCache::FinishErase(e), e = 0 for nullptr
FinishErase(c, x) ==
    IF x # 0
    THEN Unref([LRU_Remove(c, x) EXCEPT !.e[x].in_cache = FALSE,
                                        !.usage_ = @ - c.e[x].charge], x)
    ELSE c

\* table_.Remove(key, hash) followed by FinishErase of what it returns
RemoveKey(c, key) == FinishErase([c EXCEPT !.table_[key] = 0], c.table_[key])

\* An Insert that frees no node
EvictNone(c) == c

RECURSIVE EvictNewest(_)
\* An Insert that frees the newest entries of lru_
EvictNewest(c) ==
    IF c.usage_ > c.capacity_ /\ c.lru_ # <<>>
    THEN EvictNewest([RemoveKey(c, c.e[c.lru_[Len(c.lru_)]].key) EXCEPT
                        !.evicted = @ \cup {c.lru_[Len(c.lru_)]}])
    ELSE c

RECURSIVE Evict(_)
\* Insert: while (usage_ > capacity_ && lru_.next != &lru_) erase lru_.next
Evict(c) ==
    IF c.usage_ > c.capacity_ /\ c.lru_ # <<>>
    THEN Evict([RemoveKey(c, c.e[Head(c.lru_)].key) EXCEPT
                  !.evicted = @ \cup {Head(c.lru_)}])
    ELSE c

\* Insert: the new handle, with refs 1 for the handle returned
Allocated(c, key, charge) ==
    [c EXCEPT !.n = @ + 1,
              !.e[c.n + 1] = [key |-> key, charge |-> charge, in_cache |-> FALSE,
                              refs |-> 1, deleted |-> 0],
              !.held[c.n + 1] = 1]

\* Insert with capacity_ > 0: the cache's reference, in_cache, the in-use
\* list, usage_, and table_.Insert(e) with FinishErase of the entry replaced
Cached(c, x) ==
    FinishErase([LRU_Append_in_use(c, x) EXCEPT
                   !.e[x].refs = @ + 1,
                   !.e[x].in_cache = TRUE,
                   !.usage_ = @ + c.e[x].charge,
                   !.table_[c.e[x].key] = x],
                c.table_[c.e[x].key])

\* LRUCache::Insert(key, hash, value, charge, deleter)
InsertInto(c, key, charge) ==
    IF c.capacity_ > 0
    THEN Evict(Cached(Allocated(c, key, charge), c.n + 1))
    ELSE Evict(Allocated(c, key, charge))

\* LRUCache::Lookup(key, hash): the client holds one more handle when the
\* key is found
LookupIn(c, key) ==
    IF c.table_[key] # 0
    THEN Ref([c EXCEPT !.held[c.table_[key]] = @ + 1], c.table_[key])
    ELSE c

RECURSIVE PruneAll(_)
\* LRUCache::Prune: while (lru_.next != &lru_) erase lru_.next
PruneAll(c) ==
    IF c.lru_ # <<>> THEN PruneAll(RemoveKey(c, c.e[Head(c.lru_)].key)) ELSE c

RECURSIVE DestroyList(_, _)
\* ~LRUCache: for every e of lru_: e->in_cache = false; Unref(e)
DestroyList(c, list) ==
    IF list = <<>> THEN c
    ELSE DestroyList(Unref([c EXCEPT !.e[Head(list)].in_cache = FALSE],
                           Head(list)),
                     Tail(list))

\* Cache::Insert
Insert(key, charge) ==
    /\ ~cache.destroyed
    /\ cache.n < MaxEntries
    /\ cache' = [InsertInto([cache EXCEPT !.evicted = {}], key, charge) EXCEPT
                   !.last = "Insert"]
    /\ UNCHANGED <<locks, skl, opts, db, env, res, gh, it, thr, sch>>

\* Cache::Lookup
Lookup(key) ==
    /\ ~cache.destroyed
    /\ \A x \in Entries : cache.held[x] < MaxHeld
    /\ cache' = [LookupIn(cache, key) EXCEPT !.last = "Lookup"]
    /\ UNCHANGED <<locks, skl, opts, db, env, res, gh, it, thr, sch>>

\* Cache::Release(handle), for a handle the client holds
Release(x) ==
    /\ ~cache.destroyed
    /\ cache.held[x] > 0
    /\ cache' = [Unref([cache EXCEPT !.held[x] = @ - 1], x) EXCEPT
                   !.last = "Release"]
    /\ UNCHANGED <<locks, skl, opts, db, env, res, gh, it, thr, sch>>

\* Cache::Erase(key)
Erase(key) ==
    /\ ~cache.destroyed
    /\ cache' = [RemoveKey(cache, key) EXCEPT !.last = "Erase"]
    /\ UNCHANGED <<locks, skl, opts, db, env, res, gh, it, thr, sch>>

\* Cache::Prune
Prune ==
    /\ ~cache.destroyed
    /\ cache' = [PruneAll(cache) EXCEPT !.last = "Prune"]
    /\ UNCHANGED <<locks, skl, opts, db, env, res, gh, it, thr, sch>>

\* ~LRUCache, which the client calls after it released every handle
\* (assert(in_use_.next == &in_use_), and Release needs the cache)
Destroy ==
    /\ ~cache.destroyed
    /\ \A x \in Entries : cache.held[x] = 0
    /\ cache' = [DestroyList(cache, cache.lru_) EXCEPT
                   !.lru_ = <<>>, !.destroyed = TRUE, !.last = "Destroy"]
    /\ UNCHANGED <<locks, skl, opts, db, env, res, gh, it, thr, sch>>

InitCache ==
    /\ cache \in {NewLRUCache(capacity) : capacity \in Capacities}
    /\ opts = NULL
    /\ db = NULL
    /\ env = NULL
    /\ res = NULL
    /\ gh = NULL
    /\ it = NULL
    /\ thr = <<>>
    /\ sch = NULL
    /\ locks = NULL
    /\ skl = NULL

NextCache ==
    \/ \E key \in CacheKeys, charge \in Charges : Insert(key, charge)
    \/ \E key \in CacheKeys : Lookup(key)
    \/ \E x \in Entries : Release(x)
    \/ \E key \in CacheKeys : Erase(key)
    \/ Prune
    \/ Destroy

SpecCache == InitCache /\ [][NextCache]_vars

\* The entries of a list
OnList(list) == {list[i] : i \in 1..Len(list)}

\* The entries Insert has allocated
Inserted == 1..cache.n

\* C18: every entry is on the LRU list exactly if it is in the cache and the
\* client holds no handle on it, on the in-use list exactly if it is in the
\* cache and the client holds a handle on it, and on neither list exactly if
\* it is not in the cache; no entry is on a list twice.
C18_ListsMatchState ==
    /\ \A x \in Inserted :
         /\ x \in OnList(cache.lru_) <=> (cache.e[x].in_cache /\ cache.held[x] = 0)
         /\ x \in OnList(cache.in_use_) <=> (cache.e[x].in_cache /\ cache.held[x] > 0)
         /\ x \notin OnList(cache.lru_) \cup OnList(cache.in_use_)
              <=> ~cache.e[x].in_cache
    /\ Cardinality(OnList(cache.lru_)) = Len(cache.lru_)
    /\ Cardinality(OnList(cache.in_use_)) = Len(cache.in_use_)
    /\ OnList(cache.lru_) \cup OnList(cache.in_use_) \subseteq Inserted

\* C18 witness: one entry is on the LRU list after a handle on it was
\* released, one is on the in-use list, and one was erased while the client
\* holds a handle on it
C18_Witness ==
    /\ ~cache.destroyed
    /\ cache.lru_ # <<>>
    /\ cache.in_use_ # <<>>
    /\ \E x \in Inserted : ~cache.e[x].in_cache /\ cache.held[x] > 0
    /\ cache.last = "Release"

\* C19: the deleter of an entry is never called twice and never while the
\* entry is in the cache or a handle on it is held; an entry that is out of
\* the cache with no handle held has had its deleter called, so that once
\* the cache is destroyed every inserted entry's deleter was called once.
C19_DeleterCalledOnce ==
    /\ cache.wrong = {}
    /\ \A x \in Inserted :
         /\ cache.e[x].deleted <= 1
         /\ cache.e[x].deleted = 1 => ~cache.e[x].in_cache /\ cache.held[x] = 0
         /\ (~cache.e[x].in_cache /\ cache.held[x] = 0) => cache.e[x].deleted = 1
         /\ cache.destroyed => cache.e[x].deleted = 1

\* C19 witness: the cache was destroyed after MaxEntries inserts, of which
\* one replaced an entry of the same key; every deleter was called once
C19_Witness ==
    /\ cache.destroyed
    /\ cache.n = MaxEntries
    /\ \E x, y \in Inserted : x # y /\ cache.e[x].key = cache.e[y].key
    /\ \A x \in Inserted : cache.e[x].deleted = 1

RECURSIVE TotalCharge(_, _)
\* The sum of the charges of the entries of a list
TotalCharge(c, list) ==
    IF list = <<>> THEN 0 ELSE c.e[Head(list)].charge + TotalCharge(c, Tail(list))

-----------------------------------------------------------------------------
(***************************************************************************)
(* The LOCK file of the database directory.  PosixEnv::LockFile keeps a    *)
(* table of the files the process has locked (locks_) and takes a POSIX    *)
(* record lock with fcntl(F_SETLK).  A record lock belongs to the process, *)
(* not to the descriptor: fcntl never refuses the process that holds the   *)
(* lock, and close() of any descriptor of the file drops every lock the    *)
(* process holds on it.  locks is the state of the LOCK file: for each     *)
(* process whether locks_ holds its name (locked_files_) and whether a     *)
(* DBImpl of the process holds db_lock_ (handle), and the process that     *)
(* holds the record lock (owner, 0 for none).                              *)
(***************************************************************************)
Procs == 1..NumProcs

NewLocks ==
    [locked_files_ |-> [p \in Procs |-> FALSE],
     handle |-> [p \in Procs |-> FALSE],
     owner |-> 0]

\* ::close(fd) of a descriptor of the LOCK file in process p
CloseFd(l, p) == IF l.owner = p THEN [l EXCEPT !.owner = 0] ELSE l

\* LockOrUnlock(fd, lock) in process p: fcntl(fd, F_SETLK) with F_WRLCK or
\* F_UNLCK over the whole file; -1 when another process holds the lock
LockOrUnlock(l, p, lock) ==
    IF lock
    THEN IF l.owner \in {0, p}
         THEN [l |-> [l EXCEPT !.owner = p], rc |-> 0]
         ELSE [l |-> l, rc |-> -1]
    ELSE [l |-> CloseFd(l, p), rc |-> 0]

\* PosixEnv::LockFile in process p: *lock is set (lock TRUE) only on success
LockFile(l, p) ==
    IF l.locked_files_[p]
    THEN [l |-> CloseFd(l, p), status |-> "io_error", lock |-> FALSE]
    ELSE LET r == LockOrUnlock([l EXCEPT !.locked_files_[p] = TRUE], p, TRUE)
         IN IF r.rc = -1
            THEN [l |-> [CloseFd(r.l, p) EXCEPT !.locked_files_[p] = FALSE],
                  status |-> "io_error", lock |-> FALSE]
            ELSE [l |-> r.l, status |-> "ok", lock |-> TRUE]

\* PosixEnv::UnlockFile in process p
UnlockFile(l, p) ==
    LET r == LockOrUnlock(l, p, FALSE)
    IN CloseFd([r.l EXCEPT !.locked_files_[p] = FALSE], p)

\* What the rest of DBImpl::Recover returns once the lock is taken
RecoverOutcomes == {"ok", "corruption", "invalid_argument"}

\* DB::Open in process p: a new DBImpl, Recover takes the lock; when Recover
\* fails the DBImpl is deleted, and ~DBImpl unlocks if db_lock_ was set
OpenIn(p, rest) ==
    /\ locks # NULL
    /\ \E r \in {LockFile(locks, p)} :
         IF r.status # "ok"
         THEN /\ locks' = r.l
              /\ res' = [op |-> "open", p |-> p, status |-> r.status,
                         held |-> {q \in Procs : locks.handle[q]}]
         ELSE IF rest # "ok"
         THEN /\ locks' = UnlockFile(r.l, p)
              /\ res' = [op |-> "open", p |-> p, status |-> rest,
                         held |-> {q \in Procs : locks.handle[q]}]
         ELSE /\ locks' = [r.l EXCEPT !.handle[p] = TRUE]
              /\ res' = [op |-> "open", p |-> p, status |-> "ok",
                         held |-> {q \in Procs : locks.handle[q]}]
    /\ UNCHANGED <<skl, cache, opts, db, env, gh, it, thr, sch>>

\* delete db in process p: ~DBImpl unlocks
CloseIn(p) ==
    /\ locks # NULL
    /\ locks.handle[p]
    /\ locks' = [UnlockFile(locks, p) EXCEPT !.handle[p] = FALSE]
    /\ res' = [op |-> "close", p |-> p, status |-> "ok",
               held |-> {q \in Procs : locks.handle[q]}]
    /\ UNCHANGED <<skl, cache, opts, db, env, gh, it, thr, sch>>

\* Process p ends without deleting its handle and a new process takes its
\* place: the kernel drops its lock, the new process has an empty locks_
Kill(p) ==
    /\ locks # NULL
    /\ locks.handle[p]
    /\ locks' = [CloseFd(locks, p) EXCEPT !.handle[p] = FALSE,
                                           !.locked_files_[p] = FALSE]
    /\ res' = [op |-> "kill", p |-> p, status |-> "ok",
               held |-> {q \in Procs : locks.handle[q]}]
    /\ UNCHANGED <<skl, cache, opts, db, env, gh, it, thr, sch>>

InitLock ==
    /\ locks = NewLocks
    /\ res = NULL
    /\ opts = NULL
    /\ db = NULL
    /\ env = NULL
    /\ gh = NULL
    /\ it = NULL
    /\ thr = <<>>
    /\ sch = NULL
    /\ cache = NULL
    /\ skl = NULL

NextLock ==
    \/ \E p \in Procs, rest \in RecoverOutcomes : OpenIn(p, rest)
    \/ \E p \in Procs : CloseIn(p)
    \/ \E p \in Procs : Kill(p)

SpecLock == InitLock /\ [][NextLock]_vars

\* The processes that have an open handle of the directory
Handles == {p \in Procs : locks.handle[p]}

\* C21: at most one open engine handle exists for the directory at any time:
\* an open made while a handle is open fails, and an open made when no handle
\* is open (the last one was closed) gets the lock.
C21_OneHandlePerDirectory ==
    /\ Cardinality(Handles) <= 1
    /\ (res # NULL /\ res.op = "open" /\ res.held # {}) => res.status = "io_error"
    /\ (res # NULL /\ res.op = "open" /\ res.held = {}) => res.status # "io_error"

-----------------------------------------------------------------------------
(***************************************************************************)
(* A thread that runs DBImpl::Get while the thread that writes is inside   *)
(* DBImpl::FlushMemTable.  DBImpl has no mutex, so the steps of Get (the    *)
(* lookup in mem_, the load of imm_, the lookup in the memtable loaded,    *)
(* the loop over files_) interleave with the steps of the flush (the table *)
(* is built and pushed to files_; imm_ is unreferenced and set to null; or, *)
(* when BuildTable fails, mem_ is deleted and imm_ put back as mem_).  thr  *)
(* is the reading thread: its position pc, the key and the snapshot of its  *)
(* LookupKey, the memtable it loaded from imm_, whether that memtable was  *)
(* deleted since (freed), and for the comparison the newest entry of the   *)
(* key when Get began (newest) and whether that entry was in the memtable  *)
(* being flushed (flushed).                                                *)
(***************************************************************************)
IdleReader ==
    [pc |-> "idle", key |-> 0, snapshot |-> 0, imm |-> NULL, freed |-> FALSE,
     newest |-> NULL, flushed |-> FALSE]

\* files_.push_back(meta) was done and imm_ is not yet dropped
Installed ==
    /\ db.flushing # NULL
    /\ \E i \in 1..Len(db.files_) : db.files_[i].number = db.flushing.table_number

\* The return of DBImpl::Get in the reading thread
GetReturn(r) ==
    /\ res' = [op |-> "concurrent_get", key |-> thr.key, status |-> r.status,
               value |-> r.value, newest |-> thr.newest, flushed |-> thr.flushed]
    /\ thr' = IdleReader

\* DBImpl::Get, lines 982-993: the LookupKey and mem_->Get
GetMem(key) ==
    /\ db # NULL
    /\ thr.pc = "idle"
    /\ db.sequence_ > 0
    /\ \E snapshot \in {db.sequence_ - 1} :
       \E m \in {MemTableGet(db.mem_, key, snapshot)} :
       \E r \in {[thr EXCEPT !.pc = "imm", !.key = key, !.snapshot = snapshot,
                             !.newest = NewestVisible(StoredEntries, key, snapshot),
                             !.flushed = /\ db.flushing # NULL
                                         /\ NewestVisible(StoredEntries, key, snapshot)
                                              \in db.imm_.ents]} :
         IF m.hit
         THEN /\ res' = [op |-> "concurrent_get", key |-> key, status |-> m.status,
                         value |-> m.value, newest |-> r.newest,
                         flushed |-> r.flushed]
              /\ thr' = IdleReader
         ELSE /\ thr' = r
              /\ res' = res
    /\ UNCHANGED <<locks, skl, cache, opts, db, env, gh, it, sch>>

\* DBImpl::Get, line 994: imm_ is read
GetImmLoad ==
    /\ db # NULL
    /\ thr.pc = "imm"
    /\ thr' = IF db.imm_ = NULL THEN [thr EXCEPT !.pc = "files"]
              ELSE [thr EXCEPT !.pc = "imm_get", !.imm = db.imm_]
    /\ UNCHANGED <<locks, skl, cache, opts, db, env, res, gh, it, sch>>

\* DBImpl::Get, lines 994-1001: imm_->Get on the memtable that was loaded.
\* When the memtable was deleted in between, the lookup reads freed memory
\* and finds the entries that were there or nothing that parses as an entry.
GetImmGet ==
    /\ db # NULL
    /\ thr.pc = "imm_get"
    /\ \E ents \in (IF thr.freed THEN {thr.imm.ents, {}} ELSE {thr.imm.ents}) :
       \E i \in {MemTableGet([thr.imm EXCEPT !.ents = ents], thr.key, thr.snapshot)} :
         IF i.hit
         THEN GetReturn(i)
         ELSE /\ thr' = [thr EXCEPT !.pc = "files"]
              /\ res' = res
    /\ UNCHANGED <<locks, skl, cache, opts, db, env, gh, it, sch>>

\* DBImpl::Get, lines 1003-1019: the loop over files_
GetFiles ==
    /\ db # NULL
    /\ thr.pc = "files"
    /\ GetReturn(GetFromFiles([db |-> db, env |-> env], Len(db.files_), thr.key,
                              thr.snapshot, [value |-> 0, value_found |-> FALSE]))
    /\ UNCHANGED <<locks, skl, cache, opts, db, env, gh, it, sch>>

\* DBImpl::FlushMemTable, lines 752-790: BuildTable and files_.push_back
FlushInstall ==
    /\ db # NULL
    /\ db.flushing # NULL
    /\ ~Installed
    /\ \E f \in {FlushEnd([db |-> db, env |-> env], "none")} :
         /\ db' = [db EXCEPT !.files_ = f.st.db.files_]
         /\ env' = [env EXCEPT !.tables = f.st.env.tables]
    /\ UNCHANGED <<locks, skl, cache, opts, res, gh, it, thr, sch>>

\* DBImpl::FlushMemTable, lines 792-803: imm_->Unref() deletes the memtable,
\* imm_ = nullptr, the old log is closed and removed, Write returns
FlushDrop ==
    /\ db # NULL
    /\ Installed
    /\ \E f \in {FlushEnd([db |-> [db EXCEPT
                                     !.files_ = SubSeq(@, 1, Len(@) - 1)],
                           env |-> env], "none")} :
         /\ db' = f.st.db
         /\ env' = f.st.env
         /\ gh' = [gh EXCEPT !.hist[Len(gh.hist)].status = f.status]
    /\ thr' = IF thr.pc = "imm_get" THEN [thr EXCEPT !.freed = TRUE] ELSE thr
    /\ UNCHANGED <<locks, skl, cache, opts, res, it, sch>>

\* DBImpl::FlushMemTable, lines 758-780: BuildTable fails, the new mem_ is
\* deleted and imm_ is put back as mem_
FlushFail ==
    /\ db # NULL
    /\ db.flushing # NULL
    /\ ~Installed
    /\ ~gh.faulted
    /\ \E f \in {FlushEnd([db |-> db, env |-> env], "build")} :
         /\ db' = f.st.db
         /\ env' = f.st.env
         /\ gh' = [gh EXCEPT !.hist[Len(gh.hist)].status = f.status,
                             !.faulted = TRUE]
    /\ UNCHANGED <<locks, skl, cache, opts, res, it, thr, sch>>

InitGet ==
    /\ InitDB({Options(w, FALSE, FALSE) : w \in WriteBufferSizes})
    /\ it = NULL
    /\ thr = IdleReader
    /\ cache = NULL
    /\ locks = NULL
    /\ skl = NULL
    /\ sch = NULL

\* The reading thread begins a Get between two writes or during a flush;
\* the writing thread starts no write while a Get runs
NextGet ==
    \/ \E k \in Keys, len \in ValueLens :
         thr.pc = "idle" /\ Put(k, len, FALSE, "none")
    \/ \E k \in Keys : thr.pc = "idle" /\ Delete(k, FALSE, "none")
    \/ \E k \in Keys : GetMem(k)
    \/ GetImmLoad
    \/ GetImmGet
    \/ GetFiles
    \/ FlushInstall
    \/ FlushDrop
    \/ FlushFail

SpecGet == InitGet /\ [][NextGet]_vars

\* C22: a get that runs while a flush is in progress, for a key whose newest
\* entry is in the memtable being flushed, returns what that entry says: its
\* value, or NotFound when it is a deletion.
C22_GetFindsFlushedEntries ==
    (res.op = "concurrent_get" /\ res.flushed)
      => [status |-> res.status, value |-> res.value] = Effect(res.newest)

-----------------------------------------------------------------------------
\* C23: the engine has exactly one mutable memtable (mem_) at every moment
\* between two steps of its calls, at most one immutable memtable (imm_), which
\* is another memtable than mem_, and imm_ is set only while a flush is in
\* progress.
C23_OneMutableAtMostOneImmutable ==
    db # NULL =>
      /\ db.mem_ # NULL
      /\ db.mem_.refs_ = 1
      /\ (db.imm_ # NULL) <=> (db.flushing # NULL)
      /\ db.imm_ # NULL => (db.imm_.id # db.mem_.id /\ db.imm_.refs_ = 1)

\* C23 witness: an earlier flush has failed and left its memtable as mem_,
\* and a later write has started a flush of it: imm_ holds the entries of
\* both writes and mem_ is a new, empty memtable
C23_Witness ==
    /\ db # NULL
    /\ db.flushing # NULL
    /\ db.imm_ # NULL
    /\ gh.faulted
    /\ Cardinality(db.imm_.ents) >= 2
    /\ db.mem_.ents = {}

-----------------------------------------------------------------------------
(***************************************************************************)
(* A log file written by one log::Writer and read back by one log::Reader. *)
(* db holds the writer (log_), env the file, gh the payloads handed to     *)
(* AddRecord so far, res what the reader returned.                         *)
(***************************************************************************)

\* Lengths of payloads: empty, short, one that leaves exactly kHeaderSize
\* bytes in an empty block, one that leaves fewer, one longer than a block
PayloadLens ==
    {0, SmallLen, kBlockSize - 2 * kHeaderSize, kBlockSize - 2 * kHeaderSize + 3,
     LargeLen}

\* Writer::AddRecord(slice) with a slice of len bytes
LogAddRecord(len) ==
    /\ Len(gh) < MaxRecords
    /\ \E p \in {[id |-> Len(gh) + 1, len |-> len]} :
       \E ar \in {AddRecord(db.log_, p)} :
         /\ db' = [db EXCEPT !.log_ = ar.w]
         /\ env' = [env EXCEPT !.logs[1].recs = @ \o ar.recs]
         /\ gh' = Append(gh, p)
    /\ res' = [op |-> "add_record", events |-> <<>>]
    /\ UNCHANGED <<locks, skl, cache, opts, it, thr, sch>>

\* A new Reader on the file, and ReadRecord until it returns false
LogRead ==
    /\ res.op # "read_log"
    /\ res' = [op |-> "read_log", events |-> ReadLog(env.logs[1])]
    /\ UNCHANGED <<locks, skl, cache, opts, db, env, gh, it, thr, sch>>

InitLog ==
    /\ db = [NewDBImpl EXCEPT !.log_ = NewWriter(0), !.logfile_number_ = 1]
    /\ env = [EmptyEnv EXCEPT !.logs = FnPut(@, 1, EmptyLog)]
    /\ gh = <<>>
    /\ res = [op |-> "none", events |-> <<>>]
    /\ opts = NULL
    /\ it = NULL
    /\ thr = <<>>
    /\ cache = NULL
    /\ locks = NULL
    /\ skl = NULL
    /\ sch = NULL

NextLog ==
    \/ \E len \in PayloadLens : LogAddRecord(len)
    \/ LogRead

SpecLog == InitLog /\ [][NextLog]_vars

\* C24: reading a log file that holds the payloads P1..Pn written by
\* AddRecord returns exactly P1..Pn, whole and in order, then end of file, and
\* reports no corruption.
C24_LogRoundTrip ==
    res.op = "read_log"
      => res.events = [i \in 1..Len(gh) |-> [kind |-> "rec", b |-> gh[i],
                                             n |-> gh[i].len]]

\* C24 witness: a file read back that holds an empty payload, a payload
\* longer than a block, a block trailer filled with zeros and a first
\* fragment of length zero
C24_Witness ==
    /\ res.op = "read_log"
    /\ Len(res.events) = MaxRecords
    /\ \E i \in 1..Len(gh) : gh[i].len = 0
    /\ \E i \in 1..Len(gh) : gh[i].len > kBlockSize
    /\ \E j \in 1..Len(env.logs[1].recs) : env.logs[1].recs[j].pad > 0
    /\ \E j \in 1..Len(env.logs[1].recs) :
         /\ env.logs[1].recs[j].type = kFirstType
         /\ env.logs[1].recs[j].length = 0

-----------------------------------------------------------------------------
(***************************************************************************)
(* A MergingIterator over any children.  it is the iterator: children[i]   *)
(* the entries of child i (a child holds an internal key once; different   *)
(* children may hold the same internal key, and the entry of child i has   *)
(* val = i), mi its position, out the entries it returned as <<child,      *)
(* entry>> pairs.                                                          *)
(***************************************************************************)

\* The internal keys a child may hold
MergeKeys == {[key |-> k, seq |-> s, type |-> kTypeValue] : k \in Keys, s \in 0..1}

ChildOf(i, K) ==
    {[key |-> x.key, seq |-> x.seq, type |-> x.type, val |-> i, len |-> SmallLen] :
       x \in K}

\* Iterator::SeekToFirst
MergeSeekToFirst ==
    /\ it.phase = "new"
    /\ \E m \in {MergingSeekToFirst(it.children)} :
         it' = [it EXCEPT !.mi = m,
                          !.phase = IF m.current_ = 0 THEN "end" ELSE "valid",
                          !.out = IF m.current_ = 0 THEN <<>>
                                  ELSE <<m.pos[m.current_]>>]
    /\ UNCHANGED <<locks, skl, cache, opts, db, env, res, gh, thr, sch>>

\* Iterator::Next while Valid()
MergeNext ==
    /\ it.phase = "valid"
    /\ \E m \in {MergingNext(it.mi, it.children)} :
         it' = [it EXCEPT !.mi = m,
                          !.phase = IF m.current_ = 0 THEN "end" ELSE "valid",
                          !.out = IF m.current_ = 0 THEN @
                                  ELSE Append(@, m.pos[m.current_])]
    /\ UNCHANGED <<locks, skl, cache, opts, db, env, res, gh, thr, sch>>

InitMerge ==
    /\ \E K \in [1..NumChildren -> SUBSET MergeKeys] :
         it = [children |-> [i \in 1..NumChildren |-> ChildOf(i, K[i])],
               mi |-> NULL, phase |-> "new", out |-> <<>>]
    /\ opts = NULL
    /\ db = NULL
    /\ env = NULL
    /\ res = NULL
    /\ gh = NULL
    /\ thr = <<>>
    /\ cache = NULL
    /\ locks = NULL
    /\ skl = NULL
    /\ sch = NULL

NextMerge ==
    \/ MergeSeekToFirst
    \/ MergeNext

SpecMerge == InitMerge /\ [][NextMerge]_vars

\* All entries of all children
MergeEntries == UNION {it.children[i] : i \in 1..NumChildren}

\* e comes before f in the merged order: smaller internal key, or the same
\* internal key and the child with the smaller index (val is the index)
MergedBefore(e, f) ==
    \/ InternalKeyLess(e, f)
    \/ ~InternalKeyLess(f, e) /\ e.val < f.val

\* C25: forward iteration over a merging iterator yields every entry of every
\* child exactly once, in non-decreasing key order, and among entries with the
\* same key the entry of the child with the smaller index first.
C25_MergeYieldsAllInOrder ==
    it.phase # "new" =>
      /\ \A a, b \in 1..Len(it.out) : a < b => MergedBefore(it.out[a], it.out[b])
      /\ \A a \in 1..Len(it.out) :
           /\ it.out[a] \in MergeEntries
           /\ \A e \in MergeEntries :
                MergedBefore(e, it.out[a]) => \E b \in 1..(a - 1) : it.out[b] = e
      /\ it.phase = "end" => {it.out[a] : a \in 1..Len(it.out)} = MergeEntries

\* C25 witness: the iteration has ended over three children that all hold
\* the same internal key, two of which hold another key as well
C25_Witness ==
    /\ it.phase = "end"
    /\ Len(it.out) >= NumChildren + 2
    /\ \E x \in MergeKeys : \A i \in 1..NumChildren :
         \E e \in it.children[i] : e.key = x.key /\ e.seq = x.seq

-----------------------------------------------------------------------------
(***************************************************************************)
(* include/skiplist.h: one SkipList, one thread that inserts and one       *)
(* thread that reads, each taking one atomic load or store at a time.  A   *)
(* node is named by its key, head_ is node 0; next[n][l] is next_[l] of    *)
(* node n: a node, NullNode, or Uninit for memory NewNode has allocated    *)
(* and nothing was stored to yet.  height[n] = 0: node n is not allocated. *)
(* w is the inserting thread (Insert's key, height, prev[], x and loop     *)
(* index i), r the reading thread (a Seek(target) followed by Next until   *)
(* the end: GetNodeGreaterOrEqual's x and level, the iterator's node_, the *)
(* keys it returned, the keys >= target whose Insert had returned when the *)
(* read began, and whether it loaded a pointer that was never stored).     *)
(***************************************************************************)
SkipKeys == 1..MaxSkipKey
Levels == 0..(MaxHeight - 1)
HeadNode == 0
NullNode == -1
Uninit == -2

NoBarrier_SetNextNone(next, n, l, x) == next

\* Node::NoBarrier_SetNext(l, x) on node n
NoBarrier_SetNext(next, n, l, x) == [next EXCEPT ![n][l] = x]

\* Node::SetNext(l, x) on node n
SetNext(next, n, l, x) == [next EXCEPT ![n][l] = x]

\* SkipList::SkipList
NewSkipList ==
    [next |-> [n \in {HeadNode} \cup SkipKeys |->
                 [l \in Levels |-> IF n = HeadNode THEN NullNode ELSE Uninit]],
     height |-> [n \in {HeadNode} \cup SkipKeys |->
                   IF n = HeadNode THEN MaxHeight ELSE 0],
     max_height_ |-> 1,
     w |-> [pc |-> "idle", key |-> 0, height |-> 0,
            prev |-> [l \in Levels |-> HeadNode], i |-> 0],
     r |-> [pc |-> "idle", target |-> 0, x |-> HeadNode, level |-> 0,
            node_ |-> NullNode, seen |-> <<>>, must |-> {}, bad |-> FALSE],
     done |-> {}]

\* SkipList::KeyIsAfterNode(key, n)
KeyIsAfterNode(key, n) == n # NullNode /\ n < key

\* SkipList::GetNodeGreaterOrEqual(key, prev) as the inserting thread runs
\* it: the loop from node x at level level; the result is prev[]
RECURSIVE GetNodeGreaterOrEqual(_, _, _, _, _)
GetNodeGreaterOrEqual(next, key, x, level, prev) ==
    IF KeyIsAfterNode(key, next[x][level])
    THEN GetNodeGreaterOrEqual(next, key, next[x][level], level, prev)
    ELSE IF level = 0 THEN [prev EXCEPT ![0] = x]
    ELSE GetNodeGreaterOrEqual(next, key, x, level - 1, [prev EXCEPT ![level] = x])

\* SkipList::Insert(key), lines 301-315: GetNodeGreaterOrEqual,
\* RandomHeight, the store to max_height_ and NewNode
InsertBegin(key, height) ==
    /\ skl.w.pc = "idle"
    /\ skl.height[key] = 0
    /\ \E p \in {GetNodeGreaterOrEqual(skl.next, key, HeadNode, skl.max_height_ - 1,
                                       skl.w.prev)} :
         skl' = [skl EXCEPT
                   !.w = [pc |-> "init", key |-> key, height |-> height,
                          prev |-> [l \in Levels |->
                                      IF l >= skl.max_height_ THEN HeadNode ELSE p[l]],
                          i |-> 0],
                   !.max_height_ = IF height > @ THEN height ELSE @,
                   !.height[key] = height]
    /\ UNCHANGED <<locks, cache, opts, db, env, res, gh, it, thr, sch>>

\* Insert, line 319: x->NoBarrier_SetNext(i, prev[i]->NoBarrier_Next(i))
InsertInit ==
    /\ skl.w.pc = "init"
    /\ skl' = [skl EXCEPT
                 !.next = NoBarrier_SetNext(@, skl.w.key, skl.w.i,
                                            skl.next[skl.w.prev[skl.w.i]][skl.w.i]),
                 !.w.pc = "publish"]
    /\ UNCHANGED <<locks, cache, opts, db, env, res, gh, it, thr, sch>>

\* Insert, line 320: prev[i]->SetNext(i, x), and the end of the loop body
InsertPublish ==
    /\ skl.w.pc = "publish"
    /\ skl' = [skl EXCEPT
                 !.next = SetNext(@, skl.w.prev[skl.w.i], skl.w.i, skl.w.key),
                 !.w.i = @ + 1,
                 !.w.pc = IF skl.w.i + 1 < skl.w.height THEN "init" ELSE "idle",
                 !.done = IF skl.w.i + 1 < skl.w.height THEN @
                          ELSE @ \cup {skl.w.key}]
    /\ UNCHANGED <<locks, cache, opts, db, env, res, gh, it, thr, sch>>

\* Iterator::Seek(target), the start of GetNodeGreaterOrEqual: x = head_ and
\* the relaxed load of max_height_, which may return any value that was
\* stored to it
ReadBegin(target, h) ==
    /\ skl.r.pc \in {"idle", "end"}
    /\ h <= skl.max_height_
    /\ skl' = [skl EXCEPT
                 !.r = [pc |-> "seek", target |-> target, x |-> HeadNode,
                        level |-> h - 1, node_ |-> NullNode, seen |-> <<>>,
                        must |-> {k \in skl.done : k >= target}, bad |-> FALSE]]
    /\ UNCHANGED <<locks, cache, opts, db, env, res, gh, it, thr, sch>>

\* One turn of the loop of GetNodeGreaterOrEqual in the reading thread:
\* next = x->Next(level), then the move right, down, or the return
SeekStep ==
    /\ skl.r.pc = "seek"
    /\ \E next \in {skl.next[skl.r.x][skl.r.level]} :
         skl' = [skl EXCEPT
                   !.r = IF next = Uninit
                         THEN [@ EXCEPT !.bad = TRUE, !.pc = "end"]
                         ELSE IF KeyIsAfterNode(skl.r.target, next)
                         THEN [@ EXCEPT !.x = next]
                         ELSE IF skl.r.level = 0
                         THEN [@ EXCEPT !.node_ = next, !.pc = "scan"]
                         ELSE [@ EXCEPT !.level = @ - 1]]
    /\ UNCHANGED <<locks, cache, opts, db, env, res, gh, it, thr, sch>>

\* The reading thread at a position of the iterator: not Valid() ends the
\* read; else key() is taken and Iterator::Next loads node_->Next(0)
ScanStep ==
    /\ skl.r.pc = "scan"
    /\ skl' = [skl EXCEPT
                 !.r = IF skl.r.node_ = NullNode
                       THEN [@ EXCEPT !.pc = "end"]
                       ELSE IF skl.next[skl.r.node_][0] = Uninit
                       THEN [@ EXCEPT !.seen = Append(@, skl.r.node_),
                                      !.bad = TRUE, !.pc = "end"]
                       ELSE [@ EXCEPT !.seen = Append(@, skl.r.node_),
                                      !.node_ = skl.next[skl.r.node_][0]]]
    /\ UNCHANGED <<locks, cache, opts, db, env, res, gh, it, thr, sch>>

InitSkip ==
    /\ skl = NewSkipList
    /\ opts = NULL
    /\ db = NULL
    /\ env = NULL
    /\ res = NULL
    /\ gh = NULL
    /\ it = NULL
    /\ thr = <<>>
    /\ cache = NULL
    /\ locks = NULL
    /\ sch = NULL

NextSkip ==
    \/ \E key \in SkipKeys, height \in 1..MaxHeight : InsertBegin(key, height)
    \/ InsertInit
    \/ InsertPublish
    \/ \E target \in SkipKeys, h \in 1..MaxHeight : ReadBegin(target, h)
    \/ SeekStep
    \/ ScanStep

SpecSkip == InitSkip /\ [][NextSkip]_vars

\* C26: with one inserting thread, a concurrent reader meets only pointers
\* that were stored (fully initialised nodes), returns strictly increasing
\* keys at or after its target, and when it reaches the end it has returned
\* every such key whose Insert had returned before the read began; at every
\* instant every stored link of every level goes to null or to a node with a
\* greater key whose own link of that level was stored.
C26_ReadersSeeWellFormedList ==
    /\ ~skl.r.bad
    /\ \A a, b \in 1..Len(skl.r.seen) : a < b => skl.r.seen[a] < skl.r.seen[b]
    /\ \A a \in 1..Len(skl.r.seen) :
         skl.r.seen[a] >= skl.r.target /\ skl.height[skl.r.seen[a]] > 0
    /\ skl.r.pc = "end" => skl.r.must \subseteq {skl.r.seen[a] : a \in 1..Len(skl.r.seen)}
    /\ \A n \in {HeadNode} \cup SkipKeys, l \in Levels :
         (l < skl.height[n] /\ skl.next[n][l] \notin {Uninit, NullNode})
           => (skl.next[n][l] > n /\ skl.next[skl.next[n][l]][l] # Uninit)

\* C26 witness: a read that began after two inserts had returned and ended
\* while a third insert, of a node of height 2 that lies between them, had
\* linked level 0 only: the reader returned the three keys
C26_Witness ==
    /\ skl.r.pc = "end"
    /\ Cardinality(skl.r.must) = 2
    /\ Len(skl.r.seen) = 3
    /\ skl.w.pc = "init"
    /\ skl.w.i = 1
    /\ skl.w.key = skl.r.seen[2]

-----------------------------------------------------------------------------
(***************************************************************************)
(* Backward iteration: MergingIterator::Prev and DBIter::Prev.             *)
(***************************************************************************)

\* Seek(target) of a child: the first entry at or after the internal key of t
ChildSeek(S, t) == SeekEntry(S, t.key, t.seq, t.type)

\* Prev of a child standing on p: the last entry before p
ChildPrev(S, p) ==
    LET c == {e \in S : InternalKeyLess(e, p)}
    IN IF c = {} THEN NULL
       ELSE CHOOSE x \in c : \A y \in c : InternalKeyLeq(y, x)

\* SeekToLast of a child
ChildLast(S) ==
    IF S = {} THEN NULL
    ELSE CHOOSE x \in S : \A y \in S : InternalKeyLeq(y, x)

\* MergingIterator::FindLargest: the loop over children i down to 1, largest
\* the child found so far (0: none)
RECURSIVE FindLargestLoop(_, _, _)
FindLargestLoop(pos, i, largest) ==
    IF i < 1 THEN largest
    ELSE IF pos[i] # NULL /\ (largest = 0 \/ InternalKeyLess(pos[largest], pos[i]))
    THEN FindLargestLoop(pos, i - 1, i)
    ELSE FindLargestLoop(pos, i - 1, largest)

FindLargest(pos) == FindLargestLoop(pos, Len(pos), 0)

\* A Prev that leaves the other children where forward iteration put them
MergingPrevNoSwitch(mi, C, forward) ==
    LET pos2 == [mi.pos EXCEPT ![mi.current_] = ChildPrev(C[mi.current_], @)]
    IN [pos |-> pos2, current_ |-> FindLargest(pos2)]

\* MergingIterator::Prev; forward tells that direction_ is kForward (the last
\* call was SeekToFirst or Next), in which case the other children are first
\* moved to their last entry before key()
MergingPrev(mi, C, forward) ==
    LET key == mi.pos[mi.current_]
        pos1 == IF forward
                THEN [i \in 1..Len(C) |->
                        IF i = mi.current_ THEN mi.pos[i]
                        ELSE IF ChildSeek(C[i], key) # NULL
                        THEN ChildPrev(C[i], ChildSeek(C[i], key))
                        ELSE ChildLast(C[i])]
                ELSE mi.pos
        pos2 == [pos1 EXCEPT ![mi.current_] = ChildPrev(C[mi.current_], @)]
    IN [pos |-> pos2, current_ |-> FindLargest(pos2)]

\* DBIter::Prev, lines 279-293: iter_->Prev() until iter_ is not Valid or
\* stands on a user key smaller than saved_key_
RECURSIVE PrevSkipSame(_, _, _, _)
PrevSkipSame(mi, C, saved_key, forward) ==
    LET p == MergingPrev(mi, C, forward)
    IN IF p.current_ = 0 THEN p
       ELSE IF p.pos[p.current_].key < saved_key THEN p
       ELSE PrevSkipSame(p, C, saved_key, FALSE)

\* DBIter::FindPrevUserEntry: the do-while loop and what follows it
RECURSIVE FindPrevUserEntry(_, _, _, _, _, _)
FindPrevUserEntry(mi, C, sequence, value_type, saved_key, saved_value) ==
    LET ikey == mi.pos[mi.current_]
        visible == mi.current_ # 0 /\ ikey.seq <= sequence
        stop == \/ mi.current_ = 0
                \/ visible /\ value_type # kTypeDeletion /\ ikey.key < saved_key
    IN IF stop
       THEN IF value_type = kTypeDeletion
            THEN [valid_ |-> FALSE, saved_key_ |-> 0, saved_value_ |-> 0,
                  reverse |-> FALSE, mi |-> mi]
            ELSE [valid_ |-> TRUE, saved_key_ |-> saved_key,
                  saved_value_ |-> saved_value, reverse |-> TRUE, mi |-> mi]
       ELSE FindPrevUserEntry(
              MergingPrev(mi, C, FALSE), C, sequence,
              IF visible THEN ikey.type ELSE value_type,
              IF ~visible THEN saved_key
              ELSE IF ikey.type = kTypeDeletion THEN 0 ELSE ikey.key,
              IF ~visible THEN saved_value
              ELSE IF ikey.type = kTypeDeletion THEN 0 ELSE ikey.val)

\* DBIter::Prev on a valid iterator; dbi.reverse tells that direction_ is
\* kReverse
DBIterPrev(dbi, C, sequence) ==
    IF ~dbi.reverse
    THEN LET p == PrevSkipSame(dbi.mi, C, dbi.mi.pos[dbi.mi.current_].key, TRUE)
         IN IF p.current_ = 0
            THEN [valid_ |-> FALSE, saved_key_ |-> 0, saved_value_ |-> 0,
                  reverse |-> FALSE, mi |-> p]
            ELSE FindPrevUserEntry(p, C, sequence, kTypeDeletion,
                                   dbi.mi.pos[dbi.mi.current_].key, 0)
    ELSE FindPrevUserEntry(dbi.mi, C, sequence, kTypeDeletion, dbi.saved_key_,
                           dbi.saved_value_)

(***************************************************************************)
(* An iterator that is moved forward and then backward.  it is the DBIter: *)
(* its children (two; an entry is in the first, the second or both), its   *)
(* sequence_, its position dbi, and for the comparison the user key it     *)
(* stood on before the last call (from), the call (op) and what key() and  *)
(* value() return (key, value).  Entry s of the history has sequence s and *)
(* value s.                                                                *)
(***************************************************************************)
PrevKeys == 1..(MaxKey + 1)

VersionOf(s, key, type) ==
    [key |-> key, seq |-> s, type |-> type, val |-> s, len |-> SmallLen]

\* Iterator::SeekToFirst
PrevSeekToFirst ==
    /\ it.op = "new"
    /\ \E d \in {DBIterSeekToFirst(it.children, it.sequence_)} :
         it' = [it EXCEPT
                  !.op = "seek_to_first",
                  !.dbi = [valid_ |-> d.valid_, saved_key_ |-> 0, saved_value_ |-> 0,
                           reverse |-> FALSE, mi |-> d.mi],
                  !.key = IF d.valid_ THEN DBIterPair(d).key ELSE 0,
                  !.value = IF d.valid_ THEN DBIterPair(d).value ELSE 0]
    /\ UNCHANGED <<locks, skl, cache, opts, db, env, res, gh, thr, sch>>

\* Iterator::Next on a valid iterator in direction kForward
PrevNext ==
    /\ it.op \in {"seek_to_first", "next"}
    /\ it.dbi.valid_
    /\ \E d \in {DBIterNext(it.dbi, it.children, it.sequence_)} :
         it' = [it EXCEPT
                  !.op = "next",
                  !.from = it.key,
                  !.dbi = [valid_ |-> d.valid_, saved_key_ |-> 0, saved_value_ |-> 0,
                           reverse |-> FALSE, mi |-> d.mi],
                  !.key = IF d.valid_ THEN DBIterPair(d).key ELSE 0,
                  !.value = IF d.valid_ THEN DBIterPair(d).value ELSE 0]
    /\ UNCHANGED <<locks, skl, cache, opts, db, env, res, gh, thr, sch>>

\* Iterator::Prev on a valid iterator
PrevPrev ==
    /\ it.op # "new"
    /\ it.dbi.valid_
    /\ \E d \in {DBIterPrev(it.dbi, it.children, it.sequence_)} :
         it' = [it EXCEPT
                  !.op = "prev",
                  !.from = it.key,
                  !.after_forward = ~it.dbi.reverse,
                  !.dbi = d,
                  !.key = d.saved_key_,
                  !.value = d.saved_value_]
    /\ UNCHANGED <<locks, skl, cache, opts, db, env, res, gh, thr, sch>>

InitPrev ==
    /\ \E K \in [1..MaxVersions -> PrevKeys],
          T \in [1..MaxVersions -> {kTypeValue, kTypeDeletion}],
          P \in [1..MaxVersions -> {1, 2, 3}],
          sequence \in 1..MaxVersions :
         it = [children |->
                 [i \in 1..2 |->
                    {VersionOf(s, K[s], T[s]) : s \in {x \in 1..MaxVersions :
                                                        P[x] \in {i, 3}}}],
               sequence_ |-> sequence, op |-> "new", from |-> 0,
               after_forward |-> FALSE, dbi |-> NULL, key |-> 0, value |-> 0]
    /\ opts = NULL
    /\ db = NULL
    /\ env = NULL
    /\ res = NULL
    /\ gh = NULL
    /\ thr = <<>>
    /\ cache = NULL
    /\ locks = NULL
    /\ skl = NULL
    /\ sch = NULL

NextPrev ==
    \/ PrevSeekToFirst
    \/ PrevNext
    \/ PrevPrev

SpecPrev == InitPrev /\ [][NextPrev]_vars

\* The user keys below key whose newest visible entry is a value
ShownBelow(key) ==
    {j \in PrevKeys :
       /\ j < key
       /\ NewestVisible(it.children[1] \cup it.children[2], j, it.sequence_) # NULL
       /\ NewestVisible(it.children[1] \cup it.children[2], j,
                        it.sequence_).type = kTypeValue}

\* C27: Prev on an iterator that stands on user key k leaves it on the
\* greatest user key below k whose newest visible entry is a value, with
\* that value, or not valid when there is none; it does not return k again
\* nor a key whose newest visible entry is a deletion.
C27_PrevFindsPreviousUserKey ==
    it.op = "prev" =>
      IF ShownBelow(it.from) = {}
      THEN ~it.dbi.valid_
      ELSE /\ it.dbi.valid_
           /\ it.key = SetMax(ShownBelow(it.from))
           /\ it.value = NewestVisible(it.children[1] \cup it.children[2],
                                       it.key, it.sequence_).val

\* C27 witness: Prev right after Next returned key 3, of which an older
\* version exists, skips key 2, whose newest visible entry is a deletion,
\* and returns key 1
C27_Witness ==
    /\ it.op = "prev"
    /\ it.after_forward
    /\ it.from = 3
    /\ it.dbi.valid_
    /\ it.key = 1
    /\ \E e \in it.children[1] \cup it.children[2] :
         e.key = 2 /\ e.type = kTypeDeletion /\ e.seq <= it.sequence_


-----------------------------------------------------------------------------
\* The numbers of the table files of the directory that Table::Open rejects
MalformedTables == {n \in DOMAIN env.tables : TableOpenStatus(env, n) # "ok"}

\* C28: an open of a directory that holds a malformed sorted-table file
\* (one that cannot be opened or parsed) skips the file and succeeds.
C28_MalformedTableSkipped ==
    (res.op = "open" /\ MalformedTables # {}) => res.status = "ok"


-----------------------------------------------------------------------------
(* Replay of damaged logs.  The directory is written with a write buffer   *)
(* that no write of the behaviour fills, closed, and opened again after    *)
(* physical records of its log were damaged on disk.                       *)

\* A physical record whose bytes are all in the file and whose checksum
\* does not match them
Damaged(r) == [r EXCEPT !.torn = TRUE, !.tsize = kHeaderSize + r.length]

DamagedCount(f) == Cardinality({i \in 1..Len(f.recs) : f.recs[i].torn})

\* A bit of physical record i of log file n flips while the directory is
\* closed
Damage(n, i) ==
    /\ db = NULL
    /\ n \in DOMAIN env.logs
    /\ i \in 1..Len(env.logs[n].recs)
    /\ ~env.logs[n].recs[i].torn
    /\ DamagedCount(env.logs[n]) < MaxDamaged
    /\ env' = [env EXCEPT !.logs[n].recs[i] = Damaged(@)]
    /\ res' = [op |-> "damage"]
    /\ UNCHANGED <<locks, skl, cache, opts, db, gh, it, thr, sch>>

InitReplay ==
    /\ InitDB({Options(8 * kBlockSize, p, FALSE) : p \in BOOLEAN})
    /\ it = NULL
    /\ thr = <<>>
    /\ cache = NULL
    /\ locks = NULL
    /\ skl = NULL
    /\ sch = NULL

NextReplay ==
    \/ \E k \in Keys, len \in ValueLens, sync \in BOOLEAN : Put(k, len, sync, "none")
    \/ \E k \in Keys, sync \in BOOLEAN : Delete(k, sync, "none")
    \/ Close
    \/ \E n \in 1..MaxOpens, i \in 1..(2 * MaxWrites) : Damage(n, i)
    \/ Open

SpecReplay == InitReplay /\ [][NextReplay]_vars

\* C29: when the log reader reports corruption during the replay of an
\* open, the open fails if and only if paranoid_checks is set; without
\* paranoid_checks the open succeeds and the records the reader hands out
\* behind the dropped bytes are replayed.
C29_ReplayCorruptionFailsIffParanoid ==
    (res.op = "open" /\ res.replay.dropped)
      => /\ (res.status # "ok") <=> opts.paranoid_checks
         /\ ~opts.paranoid_checks => res.replay.after \subseteq StoredEntries

\* C29 witness: an open without paranoid_checks whose replay met corruption
\* and went on to a record behind it
C29_Witness ==
    /\ res.op = "open"
    /\ res.replay.dropped
    /\ ~opts.paranoid_checks
    /\ res.status = "ok"
    /\ res.replay.after # {}

\* C29 as stated: without paranoid_checks only the corrupt bytes are lost,
\* every batch that is whole in the log files is replayed
C29_OnlyCorruptBytesDropped ==
    (res.op = "open" /\ res.replay.dropped)
      => /\ (res.status # "ok") <=> opts.paranoid_checks
         /\ ~opts.paranoid_checks => res.replay.whole \subseteq StoredEntries


-----------------------------------------------------------------------------
\* A flush that had made a new log and a new memtable has returned an error
FlushFailedAfterSwitch ==
    res.op = "write" /\ res.flush = "failed" /\ "flushing" \in DOMAIN res

\* The engine is as it was before the flush: mem_ and the log writer are
\* the old ones, imm_ is not set, and the files the flush made are gone
FlushUndone ==
    /\ db.mem_ = res.imm
    /\ db.imm_ = NULL
    /\ db.log_ = res.flushing.old_log
    /\ db.logfile_number_ = res.flushing.old_log_number
    /\ res.flushing.new_log_number \notin DOMAIN env.logs
    /\ res.flushing.table_number \notin DOMAIN env.tables

\* C30: when BuildTable fails in a flush that has switched to a new log and
\* a new memtable, then on return mem_ and the log writer are the ones from
\* before the flush, imm_ is not set, and neither the new log file nor a
\* partial table file is in the directory.
C30_FailedBuildUndoesFlush ==
    (FlushFailedAfterSwitch /\ res.fault = "build") => FlushUndone

\* C30 witness: a flush whose BuildTable failed, of a memtable with entries,
\* while the old log holds records
C30_Witness ==
    /\ FlushFailedAfterSwitch
    /\ res.fault = "build"
    /\ res.imm.ents # {}
    /\ env.logs[db.logfile_number_].recs # <<>>

\* C30 as stated: whatever fails in the flush after the switch, the flush
\* is undone
C30_FailedFlushUndone ==
    FlushFailedAfterSwitch => FlushUndone


-----------------------------------------------------------------------------
(* Writes whose log append or sync fails, close and reopen.                *)

InitWal ==
    /\ InitDB({Options(w, FALSE, r) : w \in WriteBufferSizes, r \in BOOLEAN})
    /\ it = NULL
    /\ thr = <<>>
    /\ cache = NULL
    /\ locks = NULL
    /\ skl = NULL
    /\ sch = NULL

NextWal ==
    \/ \E k \in Keys, len \in ValueLens, sync \in BOOLEAN, f \in LogFaults :
         Put(k, len, sync, f)
    \/ \E k \in Keys, sync \in BOOLEAN, f \in LogFaults : Delete(k, sync, f)
    \/ \E ops \in Batches, sync \in BOOLEAN, f \in LogFaults : WriteBatch(ops, sync, f)
    \/ \E f \in FlushFaults : FlushFinish(f)
    \/ Close
    \/ Open

SpecWal == InitWal /\ [][NextWal]_vars

\* The batches that have a whole record in a log file of the directory
LoggedEntries ==
    UNION {WholeEntries(env.logs[n]) : n \in DOMAIN env.logs}

\* The record of the last write call is in the active log file, and within
\* the synced part of the file when the write asked for sync
LastWriteLogged ==
    LET w == gh.hist[Len(gh.hist)]
        f == env.logs[db.logfile_number_]
    IN \E i \in 1..Len(f.recs) :
         /\ f.recs[i].b = [seq |-> w.seq, count |-> Len(w.ops), ops |-> w.ops]
         /\ ~f.recs[i].torn
         /\ w.sync => i <= f.synced

\* C31: every entry in a memtable is of a batch whose record is in a log
\* file; a write that has put its entries into the memtable and has not
\* started a flush has its record in the active log, synced when sync was
\* asked for; and a write whose append or sync failed returns the error and
\* none of its entries is in the memtable.
C31_LogBeforeMemtable ==
    db # NULL =>
      /\ db.mem_.ents \subseteq LoggedEntries
      /\ db.imm_ # NULL => db.imm_.ents \subseteq LoggedEntries
      /\ (res.op = "write" /\ res.applied /\ res.flush = "none") => LastWriteLogged
      /\ (res.op = "write" /\ "fault" \in DOMAIN res /\ res.fault \in {"append", "sync"})
           => /\ res.status # "ok"
              /\ BatchEntries(gh.hist[Len(gh.hist)]) \cap db.mem_.ents = {}

\* C31 witness: a write with sync whose Sync failed after an earlier write
\* was applied
C31_Witness ==
    /\ db # NULL
    /\ res.op = "write"
    /\ "fault" \in DOMAIN res
    /\ res.fault = "sync"
    /\ db.mem_.ents # {}
    /\ Len(gh.hist) > 1


-----------------------------------------------------------------------------
\* C32: after an open that succeeded, and from then on while the database
\* is open, sequence_ is greater than the sequence number of every entry in
\* a table file of the directory or in a memtable (where replayed log
\* records are put), so a later write gets greater sequence numbers.
C32_SequencePastRecovered ==
    (db # NULL /\ gh.opens > 0)
      => \A e \in AllEntries : e.seq < db.sequence_

\* C32 witness: an open after a crash that recovered entries from a table
\* and, replaying a reused log, entries with greater sequence numbers
C32_Witness ==
    /\ res.op = "open"
    /\ res.status = "ok"
    /\ gh.crashes > 0
    /\ db.files_ # <<>>
    /\ \E e \in db.mem_.ents :
         \A i \in 1..Len(db.files_) :
           \A t \in env.tables[db.files_[i].number].ents : t.seq < e.seq


-----------------------------------------------------------------------------
\* The numbers of the log and table files of the directory
FileNumbers == DOMAIN env.logs \cup DOMAIN env.tables

\* C33: while the database is open, next_file_number_ is greater than the
\* number of every log and table file in the directory, so a file made
\* under next_file_number_++ takes the number of no file that is there.
C33_NextFileNumberPastFiles ==
    db # NULL => \A n \in FileNumbers : n < db.next_file_number_

\* C33 witness: the database was opened again after a flush that failed and
\* removed its files, and the recovery has made a table under a number one
\* of those files had
C33_Witness ==
    /\ res.op = "open"
    /\ res.status = "ok"
    /\ gh.reused
    /\ DOMAIN env.tables # {}

\* C33 as stated: no file is ever created under a number that a file of
\* the directory had before
C33_NumbersNeverReused == ~gh.reused


-----------------------------------------------------------------------------
\* Worker t is executing a job or has a job in its deque
Busy(t) == sch.w[t].pc = "run" \/ sch.w[t].queue_ # <<>>

\* C34: every worker on the pending list is idle: it is not executing a
\* job and has no job waiting in its deque.
C34_PendingWorkersIdle ==
    \A i \in 1..Len(sch.pending_list_) : ~Busy(sch.pending_list_[i])


-----------------------------------------------------------------------------
\* C35: whenever PriorityLoop has handed a task to a worker, no task of the
\* same priority that waits in priority_queue_ was submitted after it.
C35_TiesLifo ==
    sch.loop.pc = "release" =>
      \A x \in sch.priority_queue_ :
        x.priority = sch.loop.task.priority => x.id <= sch.loop.task.id


-----------------------------------------------------------------------------
(* util/scheduler.cpp: the mutexes.  Every function is taken as the paths  *)
(* of lock and unlock operations it can run through, whatever the queues   *)
(* hold; a mutex is <<name, index>>, a thread <<kind, index>>.  In this    *)
(* specification locks maps a mutex to the thread that owns it and thr a   *)
(* thread to the operations it has still to do in the call it is in.       *)

priority_mutex_ == <<"priority_mutex_", 0>>
lazy_mutex_ == <<"lazy_mutex_", 0>>
pending_mutex_ == <<"pending_mutex_", 0>>
mutex_(t) == <<"mutex_", t>>
Mutexes == {priority_mutex_, lazy_mutex_, pending_mutex_} \cup {mutex_(t) : t \in Workers}

NoThread == <<"none", 0>>
NumClients == 1      \* threads calling Submit, SubmitAfter and SubmitIn from outside the pool
MutexThreads ==
    {<<"client", i>> : i \in 1..NumClients} \cup {<<"PriorityLoop", 0>>, <<"LazyLoop", 0>>}
      \cup {<<"Consume", t>> : t \in Workers}

LockOp(m) == [op |-> "lock", m |-> m]
UnlockOp(m) == [op |-> "unlock", m |-> m]

\* Submit: std::lock_guard lock(priority_mutex_)
SubmitPath == <<LockOp(priority_mutex_), UnlockOp(priority_mutex_)>>

\* SubmitAfter: std::lock_guard lock(lazy_mutex_)
SubmitAfterPath == <<LockOp(lazy_mutex_), UnlockOp(lazy_mutex_)>>

\* WorkThread::Push and WorkThread::PushDispatched of worker t
PushPath(t) == <<LockOp(mutex_(t)), UnlockOp(mutex_(t))>>

\* SubmitIn: Push on the worker of the context, or Submit
SubmitInPaths == {PushPath(t) : t \in Workers} \cup {SubmitPath}

\* TryDispatch: pending_mutex_ is held while PushDispatched takes the
\* worker's mutex_
TryDispatchPaths ==
    {<<LockOp(pending_mutex_), UnlockOp(pending_mutex_)>>}
      \cup {<<LockOp(pending_mutex_)>> \o PushPath(t) \o <<UnlockOp(pending_mutex_)>> :
              t \in Workers}

\* One turn of PriorityLoop: priority_mutex_ is held over TryDispatch
PriorityLoopPaths ==
    {SubmitPath}
      \cup {<<LockOp(priority_mutex_)>> \o d \o <<UnlockOp(priority_mutex_)>> :
              d \in TryDispatchPaths}

\* One turn of LazyLoop: lazy_mutex_ is given up before TryDispatch, and
\* Submit is called when TryDispatch found no worker
LazyLoopPaths ==
    {SubmitAfterPath}
      \cup {SubmitAfterPath \o d : d \in TryDispatchPaths}
      \cup {SubmitAfterPath \o <<LockOp(pending_mutex_), UnlockOp(pending_mutex_)>>
              \o SubmitPath}

\* What a job can call on the scheduler
JobPaths == {<<>>, SubmitPath, SubmitAfterPath} \cup SubmitInPaths

\* A Consume that keeps mutex_ until it has put itself back on the pending
\* list
ConsumePathsHeld(t) ==
    {PushPath(t)}
      \cup {<<LockOp(mutex_(t))>> \o j
              \o <<LockOp(pending_mutex_), UnlockOp(pending_mutex_), UnlockOp(mutex_(t))>> :
              j \in {<<>>}}

\* One turn of WorkThread::Consume of worker t: the job is taken under
\* mutex_, run with no mutex held, and the worker puts itself back on the
\* pending list under pending_mutex_ when return_to_pending_ is set
ConsumePaths(t) ==
    {PushPath(t)}
      \cup {PushPath(t) \o j \o r :
              j \in JobPaths,
              r \in {<<>>, <<LockOp(pending_mutex_), UnlockOp(pending_mutex_)>>}}

\* The paths of the calls thread t makes
PathsOf(t) ==
    IF t[1] = "client" THEN {SubmitPath, SubmitAfterPath} \cup SubmitInPaths
    ELSE IF t[1] = "PriorityLoop" THEN PriorityLoopPaths
    ELSE IF t[1] = "LazyLoop" THEN LazyLoopPaths
    ELSE ConsumePaths(t[2])

\* Thread t enters a call (a loop its next turn)
Call(t) ==
    /\ thr[t] = <<>>
    /\ \E p \in PathsOf(t) : p # <<>> /\ thr' = [thr EXCEPT ![t] = p]
    /\ UNCHANGED <<locks, skl, cache, opts, db, env, res, gh, it, sch>>

\* std::mutex::lock
MutexLock(t) ==
    /\ thr[t] # <<>>
    /\ Head(thr[t]).op = "lock"
    /\ locks[Head(thr[t]).m] = NoThread
    /\ locks' = [locks EXCEPT ![Head(thr[t]).m] = t]
    /\ thr' = [thr EXCEPT ![t] = Tail(@)]
    /\ UNCHANGED <<skl, cache, opts, db, env, res, gh, it, sch>>

\* std::mutex::unlock
MutexUnlock(t) ==
    /\ thr[t] # <<>>
    /\ Head(thr[t]).op = "unlock"
    /\ locks' = [locks EXCEPT ![Head(thr[t]).m] = NoThread]
    /\ thr' = [thr EXCEPT ![t] = Tail(@)]
    /\ UNCHANGED <<skl, cache, opts, db, env, res, gh, it, sch>>

InitMutex ==
    /\ locks = [m \in Mutexes |-> NoThread]
    /\ thr = [t \in MutexThreads |-> <<>>]
    /\ opts = NULL
    /\ db = NULL
    /\ env = NULL
    /\ res = NULL
    /\ gh = NULL
    /\ it = NULL
    /\ sch = NULL
    /\ cache = NULL
    /\ skl = NULL

NextMutex ==
    \/ \E t \in MutexThreads : Call(t)
    \/ \E t \in MutexThreads : MutexLock(t)
    \/ \E t \in MutexThreads : MutexUnlock(t)

SpecMutex == InitMutex /\ [][NextMutex]_vars

\* Thread t is about to lock a mutex another thread owns
WaitsOnMutex(t) ==
    /\ thr[t] # <<>>
    /\ Head(thr[t]).op = "lock"
    /\ locks[Head(thr[t]).m] # NoThread

\* The thread at the end of the chain of owners that starts with the owner
\* of the mutex t waits for, after at most n steps
RECURSIVE OwnerChainEnd(_, _)
OwnerChainEnd(t, n) ==
    IF n = 0 \/ ~WaitsOnMutex(t) THEN t
    ELSE OwnerChainEnd(locks[Head(thr[t]).m], n - 1)

\* The place of a mutex in the order in which the code takes them
MutexRank(m) ==
    IF m = priority_mutex_ THEN 1
    ELSE IF m = pending_mutex_ THEN 2
    ELSE IF m = lazy_mutex_ THEN 0
    ELSE 3

\* C36: a thread that owns a mutex locks only mutexes that come later in
\* the order priority_mutex_, pending_mutex_, mutex_ (lazy_mutex_ is never
\* held together with another), and no thread waits for a mutex in a cycle:
\* the chain of owners from a waiting thread ends in a thread that does not
\* wait for a mutex.
C36_NoMutexCycle ==
    \A t \in MutexThreads :
      /\ (thr[t] # <<>> /\ Head(thr[t]).op = "lock")
           => \A m \in Mutexes :
                locks[m] = t
                  => /\ MutexRank(m) < MutexRank(Head(thr[t]).m)
                     /\ m # lazy_mutex_
      /\ ~WaitsOnMutex(OwnerChainEnd(t, Cardinality(MutexThreads)))

\* C36 witness: PriorityLoop owns priority_mutex_ and pending_mutex_ and
\* waits for the mutex_ of a worker, which a client owns in SubmitIn, while
\* that worker's Consume waits for pending_mutex_
C36_Witness ==
    \E t \in Workers :
      /\ locks[priority_mutex_] = <<"PriorityLoop", 0>>
      /\ locks[pending_mutex_] = <<"PriorityLoop", 0>>
      /\ WaitsOnMutex(<<"PriorityLoop", 0>>)
      /\ locks[mutex_(t)][1] = "client"
      /\ WaitsOnMutex(<<"Consume", t>>)
      /\ Head(thr[<<"Consume", t>>]).m = pending_mutex_


\* C37: no memtable that is a child of the client's iterator has been
\* deleted by MemTable::Unref.
C37_IteratorMemTablesAlive ==
    it # NULL
      => \A i \in 1..Len(it.children) :
           it.children[i].kind = "mem" => it.children[i].ref \notin DOMAIN it.freed


\* C38: an open that follows a close succeeds, and get then returns for
\* every key what it returned just before the close.
C38_CloseReopenKeepsGets ==
    (res.op = "open" /\ gh.closed # NULL)
      => res.status = "ok" /\ res.gets = gh.closed


\* The key the Insert of this step was called with, and the list lru_ was
\* once table_.Insert had taken the entry of that key out of the cache
InsertedKey == cache'.e[cache'.n].key
LruAtEviction == Unlinked(cache.lru_, cache.table_[InsertedKey])

\* The entries of lru_ that are still on it after this step, in their order
LruKept == SelectSeq(cache.lru_, LAMBDA y : y \in OnList(cache'.lru_))

\* C39: what an Insert evicts are the oldest entries of the LRU list, none of
\* which the client holds a handle on, and the rest of the list is left as
\* it was; the LRU list is in the order in which the last handle on each
\* entry was released: only a Release of the last handle puts an entry on
\* it, at its newest end, and no call reorders it.
C39_EvictsLeastRecentlyReleased ==
    [][/\ cache'.last = "Insert"
            => /\ \E n \in 0..Len(LruAtEviction) :
                    /\ cache'.evicted = {LruAtEviction[i] : i \in 1..n}
                    /\ cache'.lru_ = SubSeq(LruAtEviction, n + 1, Len(LruAtEviction))
               /\ \A x \in cache'.evicted :
                    cache.held[x] = 0 /\ x \notin OnList(cache.in_use_)
       /\ \/ cache'.lru_ = LruKept
          \/ /\ cache'.last = "Release"
             /\ \E x \in Inserted :
                  /\ cache.held[x] = 1
                  /\ cache'.held[x] = 0
                  /\ x \notin OnList(cache.lru_)
                  /\ cache'.lru_ = Append(LruKept, x)]_vars

\* C39 witness: an Insert has evicted the entry of the LRU list whose last
\* handle was released first, although it was inserted after the entry it
\* left on the list, and has kept the new entry, which the client holds
C39_Witness ==
    /\ cache.last = "Insert"
    /\ cache.lru_ # <<>>
    /\ cache.usage_ <= cache.capacity_
    /\ cache.n \in OnList(cache.in_use_)
    /\ \E y \in cache.evicted : Head(cache.lru_) < y


\* C40: no worker is on pending_list_ twice, so the list never holds more
\* entries than there are workers; a worker that is on the list is not
\* about to put itself on it again.
C40_PendingListNoDuplicates ==
    /\ Cardinality(OnList(sch.pending_list_)) = Len(sch.pending_list_)
    /\ Len(sch.pending_list_) <= NumWorkers
    /\ \A t \in OnList(sch.pending_list_) :
         ~sch.w[t].return_to_pending_ /\ sch.w[t].pc # "push"

\* C40 witness: every worker is on pending_list_, and one of them has put
\* itself back after an affinity job, while the job PriorityLoop dispatched
\* to it is still in its queue_
C40_Witness ==
    /\ Len(sch.pending_list_) = NumWorkers
    /\ \E t \in Workers :
         /\ \E j \in 1..sch.jobs : sch.ctx[j] = t /\ sch.ran_on[j] = t
         /\ \E i \in 1..Len(sch.w[t].queue_) : sch.ctx[sch.w[t].queue_[i]] = 0

====
